---- MODULE Spec2Model ----
(***************************************************************************)
(* A model of the govreposcrape ingestion container:                       *)
(*   - the work partitioner    (ingest.py, filter_repos_for_batch)         *)
(*   - the retry executor      (ingest.py, retry_with_backoff)             *)
(*   - the cache client        (cache.py, check_cache / update_cache)      *)
(*   - the pipeline orchestrator (orchestrator.py, main)                   *)
(*   - the repository processor (ingest.py, process_repository)            *)
(*   - the storage clients     (r2_client.py, gcs_client.py,               *)
(*                              google_filesearch_client.py)               *)
(* Each component has its own specification over the shared variables; a   *)
(* component that a specification does not exercise stays in its idle      *)
(* state.                                                                  *)
(***************************************************************************)
EXTENDS Integers, Sequences, FiniteSets, TLC

VARIABLES
    \* ---- work partitioner
    pRepos,         \* the feed handed to filter_repos_for_batch
    pBatch,         \* batch_size
    pParts,         \* offset -> filter_repos_for_batch(enumerate(feed), batch_size, offset)
    \* ---- retry executor
    max_attempts,   \* argument of retry_with_backoff
    delays,         \* argument of retry_with_backoff
    attempt,        \* loop variable of "for attempt in range(max_attempts)"
    rpc,            \* position inside retry_with_backoff
    calls,          \* outcome of each call of func so far: "ok" or "err"
    slept,          \* the delays handed to time.sleep so far
    rresult,        \* what retry_with_backoff returned or raised
    \* ---- cache client (one call of check_cache)
    cStored,        \* pushedAt of the entry the store holds for (org, repo); 0: no entry
    cPushedAt,      \* the pushed_at argument
    cResp,          \* what requests.get produced
    cRes,           \* what check_cache returned or raised
    cpc,            \* position inside check_cache
    jsonErrorIsRequestException,
                    \* whether response.json() fails with a RequestException
                    \* (requests >= 2.27) or with a plain ValueError
    \* ---- orchestrator
    feed,           \* the repos.json snapshot of the current run
    store,          \* the cache store: (org, repo) -> pushedAt of its entry, 0: none
    CACHE_AVAILABLE,\* whether "from cache import ..." succeeded
    proc,           \* worker -> the state of its orchestrator.py process
    prevOk,         \* the (url, pushedAt) the previous run processed successfully
                    \* and whose update_cache returned True
    \* ---- repository processor (one call of process_repository)
    gitingest_installed,
                    \* whether "from gitingest import ingest" succeeds
    upload_to_r2,   \* argument of process_repository
    ppc,            \* position inside process_repository
    alarm,          \* whether a SIGALRM is pending (signal.alarm armed)
    fired,          \* where the alarm went off: "no", or the position it interrupted
    pexc,           \* the exception on its way out of the inner try, "" when none
    pvalue,         \* what retry_with_backoff returned (the value of ingest())
    psummary,       \* the local variable summary
    pstats,         \* the module's ProcessingStats: successful and failed
    puploads,       \* the summaries handed to upload_summary_to_r2, with its answers
    presult,        \* the dict process_repository returned
    \* ---- storage clients (calls of one operation on one client)
    sop,            \* the operation called
    senv,           \* the environment: whether the configuration and the
                    \* bucket or store are there, whether the store is named
    sclient,        \* the client object: whether its bucket / store_name is set
    spc,            \* position inside the operation
    sattempt,       \* loop variable of "for attempt in range(max_retries)"
    sslept,         \* the delays handed to time.sleep by the client's own loop
    sstats,         \* the client's stats: total_uploaded and total_failed
    sres,           \* what the operation returned or raised
    scalls,         \* the number of calls made on the client before this one
    \* ---- progress reporting of the processing loop
    lTotal,         \* len(repos_to_process)
    lIdx,           \* the loop index idx (the number of items already processed)
    lLogs,          \* the "processed" value of each progress log so far
    lpc,            \* position of the loop
    \* ---- upload of a summary to R2 (upload_summary_to_r2)
    r2,             \* the bucket: key -> the metadata of the object stored there
    uLast,          \* the last call: the feed entry's url and pushedAt, the
                    \* time of the call and what it returned; <<>> before
    uNow,           \* the clock: the number of calls made so far
    \* ---- File Search and Cloud Storage uploads (arguments, locals, backend)
    fContent,       \* len(summary_content), the argument of upload_summary_sync
    fWritten,       \* what the attempt wrote to its temporary file; <<>> before
    fPoll,          \* poll_count
    fPollSlept,     \* the seconds slept by the polling loop of the attempt
    fDone,          \* operation.done
    fTimedOut,      \* whether an attempt of this call ended by the polling limit
    gObject,        \* the object at {org}/{repo}.md: <<>> when there is none,
                    \* else its pushedAt metadata and the number of times
                    \* upload_summary has written it
    gBefore,        \* gObject at the start of the call
    gPushedAt,      \* str(metadata.get('pushedAt', '')) of the call
    gCheck          \* how the existence check of the call ended; "none" before

partVars  == <<pRepos, pBatch, pParts>>
retryVars == <<max_attempts, delays, attempt, rpc, calls, slept, rresult>>
cacheVars == <<cStored, cPushedAt, cResp, cRes, cpc, jsonErrorIsRequestException>>
orchVars  == <<feed, store, CACHE_AVAILABLE, proc, prevOk>>
prVars    == <<gitingest_installed, upload_to_r2, ppc, alarm, fired, pexc, pvalue,
               psummary, pstats, puploads, presult>>
stVars    == <<sop, senv, sclient, spc, sattempt, sslept, sstats, sres, scalls>>
progVars  == <<lTotal, lIdx, lLogs, lpc>>
upVars    == <<r2, uLast, uNow>>
beVars    == <<fContent, fWritten, fPoll, fPollSlept, fDone, fTimedOut,
               gObject, gBefore, gPushedAt, gCheck>>
vars      == <<partVars, retryVars, cacheVars, orchVars, prVars, stVars, progVars, upVars, beVars>>
notPart   == <<retryVars, cacheVars, orchVars, prVars, stVars, progVars, upVars, beVars>>
notRetry  == <<partVars, cacheVars, orchVars, prVars, stVars, progVars, upVars, beVars>>
notCache  == <<partVars, retryVars, orchVars, prVars, stVars, progVars, upVars, beVars>>
notOrch   == <<partVars, retryVars, cacheVars, prVars, stVars, progVars, upVars, beVars>>
notProcessor == <<partVars, cacheVars, orchVars, stVars, progVars, upVars, beVars>>
notStorage == <<partVars, cacheVars, orchVars, prVars, progVars, upVars, beVars>>
notProgress == <<partVars, retryVars, cacheVars, orchVars, prVars, stVars, upVars, beVars>>
notUpload == <<partVars, retryVars, cacheVars, orchVars, prVars, stVars, progVars, beVars>>
notBackend == <<partVars, cacheVars, orchVars, prVars, progVars, upVars>>

(***************************************************************************)
(* Bounds of the model.                                                    *)
(***************************************************************************)
MaxFeed == 4
MaxBatch == 3
MaxAttempts == 3
MaxDelays == 2

Items == {"a", "b"}
DelayValues == {1, 2, 4}

RECURSIVE SeqsUpTo(_, _)
SeqsUpTo(S, n) ==
    IF n = 0 THEN {<<>>}
    ELSE LET shorter == SeqsUpTo(S, n - 1)
         IN shorter \cup {Append(s, x) : s \in {t \in shorter : Len(t) = n - 1}, x \in S}

(***************************************************************************)
(* Idle states of the components.                                          *)
(***************************************************************************)
PartIdle ==
    /\ pRepos = <<>>
    /\ pBatch = 1
    /\ pParts = <<>>

RetryIdle ==
    /\ max_attempts = 0
    /\ delays = <<1>>
    /\ attempt = 0
    /\ rpc = "idle"
    /\ calls = <<>>
    /\ slept = <<>>
    /\ rresult = <<"none">>

CacheIdle ==
    /\ cStored = 0
    /\ cPushedAt = 1
    /\ cResp = <<>>
    /\ cRes = <<>>
    /\ cpc = "idle"
    /\ jsonErrorIsRequestException = TRUE

OrchIdle ==
    /\ feed = <<>>
    /\ store = <<>>
    /\ CACHE_AVAILABLE = TRUE
    /\ proc = <<>>
    /\ prevOk = {}

ProcessorIdle ==
    /\ gitingest_installed = TRUE
    /\ upload_to_r2 = TRUE
    /\ ppc = "idle"
    /\ alarm = FALSE
    /\ fired = "no"
    /\ pexc = ""
    /\ pvalue = <<>>
    /\ psummary = <<>>
    /\ pstats = [successful |-> 0, failed |-> 0]
    /\ puploads = <<>>
    /\ presult = <<>>

StorageIdle ==
    /\ sop = "none"
    /\ senv = [config |-> TRUE, named |-> TRUE]
    /\ sclient = [bucket |-> FALSE, store_name |-> FALSE]
    /\ spc = "idle"
    /\ sattempt = 0
    /\ sslept = <<>>
    /\ sstats = [total_uploaded |-> 0, total_failed |-> 0]
    /\ sres = <<>>
    /\ scalls = 0

ProgressIdle ==
    /\ lTotal = 0
    /\ lIdx = 0
    /\ lLogs = <<>>
    /\ lpc = "idle"

UploadIdle ==
    /\ r2 = [k \in {} |-> 0]
    /\ uLast = <<>>
    /\ uNow = 0

BackendIdle ==
    /\ fContent = 0
    /\ fWritten = <<>>
    /\ fPoll = 0
    /\ fPollSlept = 0
    /\ fDone = FALSE
    /\ fTimedOut = FALSE
    /\ gObject = <<>>
    /\ gBefore = <<>>
    /\ gPushedAt = ""
    /\ gCheck = "none"

(***************************************************************************)
(* Work partitioner: ingest.py, filter_repos_for_batch.                    *)
(***************************************************************************)
\* Python's enumerate(repos): the pairs (idx, repo), idx counted from 0.
Enumerate(repos) == [i \in 1..Len(repos) |-> <<i - 1, repos[i]>>]

\* Mutant: chunking by floor division instead of striding by modulo.
AssignedByDivision(idx, batch_size, offset) == idx \div batch_size = offset

\* Mutant: positions counted from 1.
AssignedOneBased(idx, batch_size, offset) == (idx + 1) % batch_size = offset

\* The comprehension's condition "idx % batch_size == offset".
Assigned(idx, batch_size, offset) == idx % batch_size = offset

\* "[repo for idx, repo in enumerate(repos) if idx % batch_size == offset]":
\* the pairs from position `from` (a 1-based index of pairs) on that meet the
\* condition, in their order, and of each its repo.
Comprehension(pairs, batch_size, offset, from) ==
    LET kept == SelectSeq(SubSeq(pairs, from, Len(pairs)),
                          LAMBDA pr : Assigned(pr[1], batch_size, offset))
    IN [k \in 1..Len(kept) |-> kept[k][2]]

filter_repos_for_batch(repos, batch_size, offset) ==
    Comprehension(Enumerate(repos), batch_size, offset, 1)

InitPartition ==
    /\ pRepos \in SeqsUpTo(Items, MaxFeed)
    /\ pBatch \in 1..MaxBatch
    /\ pParts = <<>>
    /\ RetryIdle
    /\ CacheIdle
    /\ OrchIdle
    /\ ProcessorIdle
    /\ StorageIdle
    /\ ProgressIdle
    /\ UploadIdle
    /\ BackendIdle

\* One worker's call of filter_repos_for_batch. The feed's items are handed
\* over with their position attached, so that the result tells which positions
\* were selected even when the feed repeats an item.
Filter(o) ==
    /\ o \in 0..(pBatch - 1)
    /\ o \notin DOMAIN pParts
    /\ pParts' = [x \in DOMAIN pParts \cup {o} |->
                    IF x = o THEN filter_repos_for_batch(Enumerate(pRepos), pBatch, o)
                    ELSE pParts[x]]
    /\ UNCHANGED <<pRepos, pBatch, notPart>>

NextPartition == \E o \in 0..(MaxBatch - 1) : Filter(o)

SpecPartition == InitPartition /\ [][NextPartition]_vars

\* ---- properties of the partitioner

Positions == 0..(Len(pRepos) - 1)
AllFiltered == DOMAIN pParts = 0..(pBatch - 1)

\* how often position p occurs in the result for offset o
Occurrences(p, o) == Cardinality({k \in 1..Len(pParts[o]) : pParts[o][k][1] = p})

\* C1: for every feed and batch_size >= 1, every feed position is selected for
\* exactly one offset in [0, batch_size), exactly once: the partitions of
\* distinct offsets are disjoint and together they are the whole feed.
C1_PartitionExactlyOnce ==
    /\ \A o1 \in DOMAIN pParts, o2 \in DOMAIN pParts :
         o1 # o2 =>
           {pParts[o1][k][1] : k \in 1..Len(pParts[o1])}
             \cap {pParts[o2][k][1] : k \in 1..Len(pParts[o2])} = {}
    /\ \A o \in DOMAIN pParts, p \in Positions : Occurrences(p, o) <= 1
    /\ \A o \in DOMAIN pParts : \A k \in 1..Len(pParts[o]) :
         /\ pParts[o][k][1] \in Positions
         /\ pParts[o][k][2] = pRepos[pParts[o][k][1] + 1]
    /\ AllFiltered =>
         \A p \in Positions :
           Cardinality({o \in DOMAIN pParts : Occurrences(p, o) = 1}) = 1

C1_Witness ==
    /\ AllFiltered
    /\ pBatch = 2
    /\ Len(pRepos) = 3
    /\ pRepos[1] = pRepos[3]
    /\ Len(pParts[0]) = 2
    /\ Len(pParts[1]) = 1

\* the number of positions p of the feed with p mod batch_size = o
StrideCount(o) ==
    IF Len(pRepos) <= o THEN 0 ELSE ((Len(pRepos) - 1 - o) \div pBatch) + 1

\* C2: the result for offset o is exactly the items at positions o, o + B,
\* o + 2B, ... in feed order; B = 1 gives the feed unchanged, an empty feed
\* gives an empty result, and a batch size above the feed length gives every
\* offset zero or one item.
C2_PartitionIsStride ==
    \A o \in DOMAIN pParts :
        /\ Len(pParts[o]) = StrideCount(o)
        /\ \A k \in 1..Len(pParts[o]) :
             pParts[o][k] = <<o + (k - 1) * pBatch, pRepos[o + (k - 1) * pBatch + 1]>>
        /\ pBatch = 1 => pParts[o] = Enumerate(pRepos)
        /\ pRepos = <<>> => pParts[o] = <<>>
        /\ pBatch > Len(pRepos) =>
             Len(pParts[o]) = (IF o < Len(pRepos) THEN 1 ELSE 0)

C2_Witness ==
    /\ pBatch = 3
    /\ Len(pRepos) = 4
    /\ 0 \in DOMAIN pParts
    /\ pParts[0] = <<<<0, pRepos[1]>>, <<3, pRepos[4]>>>>

(***************************************************************************)
(* Retry executor: ingest.py, retry_with_backoff.                          *)
(* func is the environment: each call either returns a value or raises.    *)
(* The value returned, and the exception raised, by the k-th call are      *)
(* <<"value", k>> and <<"exc", k>>.                                        *)
(***************************************************************************)
\* Every call site passes a non-empty schedule ([1, 2, 4]).
DelaySchedules == SeqsUpTo(DelayValues, MaxDelays) \ {<<>>}

\* Mutant: the last attempt is not recognised (off by one).
IsLastAttemptOffByOne(a, n) == a = n

\* "if attempt == max_attempts - 1"
IsLastAttempt(a, n) == a = n - 1

\* "delays[attempt] if attempt < len(delays) else delays[-1]"
BackoffDelay(ds, a) == IF a < Len(ds) THEN ds[a + 1] ELSE ds[Len(ds)]

InitRetry ==
    /\ max_attempts \in (-1)..MaxAttempts
    /\ delays \in DelaySchedules
    /\ attempt = 0
    /\ rpc = "loop"
    /\ calls = <<>>
    /\ slept = <<>>
    /\ rresult = <<"none">>
    /\ PartIdle
    /\ CacheIdle
    /\ OrchIdle
    /\ ProcessorIdle
    /\ StorageIdle
    /\ ProgressIdle
    /\ UploadIdle
    /\ BackendIdle

\* Mutant: the value of a successful call is dropped and the loop goes on.
RetryCallNoReturn ==
    /\ rpc = "loop"
    /\ attempt < max_attempts
    /\ \/ /\ calls' = Append(calls, "ok")
          /\ attempt' = attempt + 1
          /\ UNCHANGED <<rpc, rresult>>
       \/ /\ calls' = Append(calls, "err")
          /\ rpc' = "except"
          /\ UNCHANGED <<attempt, rresult>>
    /\ UNCHANGED <<max_attempts, delays, slept, notRetry>>

\* "for attempt in range(max_attempts): try: return func()"
RetryCall ==
    /\ rpc = "loop"
    /\ attempt < max_attempts
    /\ \/ /\ calls' = Append(calls, "ok")
          /\ rpc' = "returned"
          /\ rresult' = <<"value", Len(calls) + 1>>
       \/ /\ calls' = Append(calls, "err")
          /\ rpc' = "except"
          /\ UNCHANGED rresult
    /\ UNCHANGED <<max_attempts, delays, attempt, slept, notRetry>>

\* range(max_attempts) is exhausted: the function falls off its end and
\* returns None.
RetryFallThrough ==
    /\ rpc = "loop"
    /\ attempt >= max_attempts
    /\ rpc' = "returned"
    /\ rresult' = <<"none">>
    /\ UNCHANGED <<max_attempts, delays, attempt, calls, slept, notRetry>>

\* "except Exception as e": re-raise on the last attempt, else pick the delay
\* and log the warning.
RetryHandle ==
    /\ rpc = "except"
    /\ IF IsLastAttempt(attempt, max_attempts)
       THEN /\ rpc' = "raised"
            /\ rresult' = <<"exc", Len(calls)>>
       ELSE /\ rpc' = "sleep"
            /\ UNCHANGED rresult
    /\ UNCHANGED <<max_attempts, delays, attempt, calls, slept, notRetry>>

\* "time.sleep(delay)", then the next iteration of the loop.
RetrySleep ==
    /\ rpc = "sleep"
    /\ slept' = Append(slept, BackoffDelay(delays, attempt))
    /\ attempt' = attempt + 1
    /\ rpc' = "loop"
    /\ UNCHANGED <<max_attempts, delays, calls, rresult, notRetry>>

NextRetry == RetryCall \/ RetryFallThrough \/ RetryHandle \/ RetrySleep

SpecRetry == InitRetry /\ [][NextRetry]_vars

\* ---- properties of the retry executor

RetryEnded == rpc \in {"returned", "raised"}
AllCallsFailed == \A k \in 1..Len(calls) : calls[k] = "err"

\* the schedule the claim states: delays[i], or the last delay when i >= len(delays)
StatedDelay(i) == IF i < Len(delays) THEN delays[i + 1] ELSE delays[Len(delays)]

\* C9: if func fails on every call and max_attempts = n >= 1, func is called
\* exactly n times, the sleeps are delays[0], delays[1], ... (the last delay
\* once the schedule is used up), one after each failed attempt but the last,
\* and the exception of the last call is raised.
C9_RetryExhaustion ==
    (max_attempts >= 1 /\ AllCallsFailed) =>
        /\ Len(calls) <= max_attempts
        /\ Len(slept) <= max_attempts - 1
        /\ \A i \in 1..Len(slept) : slept[i] = StatedDelay(i - 1)
        /\ rpc = "loop" => Len(slept) = Len(calls)
        /\ rpc = "except" => Len(slept) = Len(calls) - 1
        /\ rpc = "sleep" => Len(slept) = Len(calls) - 1 /\ Len(calls) < max_attempts
        /\ rpc # "returned"
        /\ rpc = "raised" =>
             /\ Len(calls) = max_attempts
             /\ Len(slept) = max_attempts - 1
             /\ rresult = <<"exc", max_attempts>>

C9_Witness ==
    /\ rpc = "raised"
    /\ max_attempts = 3
    /\ delays = <<1, 2>>
    /\ calls = <<"err", "err", "err">>
    /\ slept = <<1, 2>>

\* the number of failed calls before the first successful one
FirstOk == CHOOSE k \in 1..Len(calls) : calls[k] = "ok" /\ \A j \in 1..(k - 1) : calls[j] = "err"

\* C10: the value of the first successful call is returned at once: when func
\* fails k < max_attempts times and then succeeds it has been called exactly
\* k + 1 times, nothing is called or slept after the success, and the value of
\* call k + 1 is the result.
C10_ReturnsFirstSuccess ==
    (\E k \in 1..Len(calls) : calls[k] = "ok") =>
        /\ FirstOk = Len(calls)
        /\ Len(calls) <= max_attempts
        /\ rpc = "returned"
        /\ rresult = <<"value", Len(calls)>>
        /\ Len(slept) = Len(calls) - 1

C10_Witness ==
    /\ rpc = "returned"
    /\ calls = <<"err", "err", "ok">>
    /\ rresult = <<"value", 3>>
    /\ Len(slept) = 2

\* C34: for every value of max_attempts, 0 and the negative values included,
\* retry_with_backoff returns a value that a call of func returned or raises
\* an exception that a call of func raised; it never returns without having
\* called func at least once.
C34_ResultComesFromACall ==
    RetryEnded =>
        /\ calls # <<>>
        /\ rpc = "returned" => (rresult = <<"value", Len(calls)>> /\ calls[Len(calls)] = "ok")
        /\ rpc = "raised" => (rresult = <<"exc", Len(calls)>> /\ calls[Len(calls)] = "err")

\* What the code keeps of C34: with max_attempts >= 1 the result is the value
\* or the exception of the last call made.
ResultComesFromACallWhenAttempted ==
    (RetryEnded /\ max_attempts >= 1) =>
        /\ calls # <<>>
        /\ rpc = "returned" => (rresult = <<"value", Len(calls)>> /\ calls[Len(calls)] = "ok")
        /\ rpc = "raised" => (rresult = <<"exc", Len(calls)>> /\ calls[Len(calls)] = "err")

(***************************************************************************)
(* Repository processor: ingest.py, process_repository.                    *)
(* The summarizer (gitingest's ingest) and the storage client are outside  *)
(* the function: each call of the summarizer returns a value, raises, or   *)
(* is interrupted by the alarm; the upload answers True or False.          *)
(* A text is [src, len, notice]: where it was taken from, its length, and  *)
(* whether it ends with the truncation notice.                             *)
(***************************************************************************)
IngestMaxAttempts == 3
IngestDelays == <<1, 2, 4>>
MAX_SUMMARY_SIZE == 524288
NoticeLength == 44

SummaryLengths == {0, MAX_SUMMARY_SIZE - 1, MAX_SUMMARY_SIZE, MAX_SUMMARY_SIZE + 1}

\* What ingest() can return: whether the value has a summary attribute,
\* whether it is a tuple of two elements, and the length of the text that the
\* attribute, the first element and str() each give.
IngestValues ==
    [attr : BOOLEAN, pair : BOOLEAN, len : SummaryLengths]

\* upload_summary_to_r2: the summary was stored, the upload failed after its
\* retries (or raised), or r2_client could not be imported.
UploadOutcomes == {"stored", "failed", "unavailable"}

Text(src, len) == [src |-> src, len |-> len, notice |-> FALSE]

\* Faulty variant: the tuple test comes before the attribute test.
ExtractSummaryPairFirst(v) ==
    IF v.pair THEN Text("first", v.len)
    ELSE IF v.attr THEN Text("attr", v.len)
    ELSE Text("str", v.len)

\* "if hasattr(result, 'summary') ... elif isinstance(result, tuple) and
\* len(result) == 2 ... else str(result)"
ExtractSummary(v) ==
    IF v.attr THEN Text("attr", v.len)
    ELSE IF v.pair THEN Text("first", v.len)
    ELSE Text("str", v.len)

\* "No truncation": the summary goes on as it is.
Persisted(summary) == summary

SuccessResult(summary, uploaded) ==
    [success |-> TRUE, summary |-> summary, repo_url |-> "repo_url",
     uploaded |-> uploaded]
FailureResult(error) ==
    [success |-> FALSE, error |-> error, repo_url |-> "repo_url"]

\* The exception retry_with_backoff let through.
RetryRaised ==
    IF rresult = <<"alarm">> THEN "TimeoutError"
    ELSE IF calls[rresult[2]] = "timeout" THEN "TimeoutError"
    ELSE "Exception"

InitProcess ==
    /\ gitingest_installed \in BOOLEAN
    /\ upload_to_r2 \in BOOLEAN
    /\ ppc = "import"
    /\ alarm = FALSE
    /\ fired = "no"
    /\ pexc = ""
    /\ pvalue = <<>>
    /\ psummary = <<>>
    /\ pstats = [successful |-> 0, failed |-> 0]
    /\ puploads = <<>>
    /\ presult = <<>>
    /\ max_attempts = IngestMaxAttempts
    /\ delays = IngestDelays
    /\ attempt = 0
    /\ rpc = "idle"
    /\ calls = <<>>
    /\ slept = <<>>
    /\ rresult = <<"none">>
    /\ PartIdle
    /\ CacheIdle
    /\ OrchIdle
    /\ StorageIdle
    /\ ProgressIdle
    /\ UploadIdle
    /\ BackendIdle

\* "from gitingest import ingest", and the return of the ImportError branch.
ProcImport ==
    /\ ppc = "import"
    /\ IF gitingest_installed
       THEN /\ ppc' = "arm"
            /\ UNCHANGED presult
       ELSE /\ ppc' = "done"
            /\ presult' = <<FailureResult("gitingest library not installed")>>
    /\ UNCHANGED <<gitingest_installed, upload_to_r2, alarm, fired, pexc, pvalue,
                   psummary, pstats, puploads, retryVars, notProcessor>>

\* signal.signal(SIGALRM, timeout_handler); signal.alarm(5 * 60)
ProcArm ==
    /\ ppc = "arm"
    /\ alarm' = TRUE
    /\ ppc' = "armed"
    /\ UNCHANGED <<gitingest_installed, upload_to_r2, fired, pexc, pvalue,
                   psummary, pstats, puploads, presult, retryVars, notProcessor>>

\* The inner try is entered and retry_with_backoff is called.
ProcSummarize ==
    /\ ppc = "armed"
    /\ ppc' = "retry"
    /\ rpc' = "loop"
    /\ UNCHANGED <<gitingest_installed, upload_to_r2, alarm, fired, pexc, pvalue,
                   psummary, pstats, puploads, presult,
                   max_attempts, delays, attempt, calls, slept, rresult, notProcessor>>

\* retry_with_backoff is over: its value is bound to result, or its exception
\* goes to "except TimeoutError" or, through "finally", to the outer handler.
ProcRetryEnd ==
    /\ ppc = "retry"
    /\ \/ /\ rpc = "returned"
          /\ \E v \in IngestValues : pvalue' = <<v>>
          /\ ppc' = "extract"
          /\ UNCHANGED pexc
       \/ /\ rpc = "raised"
          /\ pexc' = RetryRaised
          /\ ppc' = IF RetryRaised = "TimeoutError" THEN "timeout" ELSE "finally"
          /\ UNCHANGED pvalue
    /\ rpc' = "idle"
    /\ UNCHANGED <<gitingest_installed, upload_to_r2, alarm, fired,
                   psummary, pstats, puploads, presult,
                   max_attempts, delays, attempt, calls, slept, rresult, notProcessor>>

\* The summary is taken out of the value.
ProcExtract ==
    /\ ppc = "extract"
    /\ psummary' = <<ExtractSummary(pvalue[1])>>
    /\ ppc' = "disarm"
    /\ UNCHANGED <<gitingest_installed, upload_to_r2, alarm, fired, pexc, pvalue,
                   pstats, puploads, presult, retryVars, notProcessor>>

\* signal.alarm(0); stats.record_success(duration)
ProcDisarm ==
    /\ ppc = "disarm"
    /\ alarm' = FALSE
    /\ pstats' = [pstats EXCEPT !.successful = @ + 1]
    /\ ppc' = "upload"
    /\ UNCHANGED <<gitingest_installed, upload_to_r2, fired, pexc, pvalue,
                   psummary, puploads, presult, retryVars, notProcessor>>

\* Faulty variant: a failed upload makes the item a failure.
ProcUploadFailsItem ==
    /\ ppc = "upload"
    /\ \E up \in UploadOutcomes :
         /\ puploads' = Append(puploads, <<Persisted(psummary[1]), up>>)
         /\ IF up = "stored"
            THEN /\ presult' = <<SuccessResult(Persisted(psummary[1]), TRUE)>>
                 /\ UNCHANGED pstats
            ELSE /\ presult' = <<FailureResult("upload failed")>>
                 /\ pstats' = [successful |-> 0, failed |-> 1]
    /\ alarm' = FALSE
    /\ ppc' = "done"
    /\ UNCHANGED <<gitingest_installed, upload_to_r2, fired, pexc, pvalue,
                   psummary, retryVars, notProcessor>>

\* Faulty variant: the summary is uploaded whatever upload_to_r2 says.
ProcUploadAlways ==
    /\ ppc = "upload"
    /\ \E up \in UploadOutcomes :
         /\ puploads' = Append(puploads, <<Persisted(psummary[1]), up>>)
         /\ presult' = <<SuccessResult(Persisted(psummary[1]), up = "stored")>>
    /\ alarm' = FALSE
    /\ ppc' = "done"
    /\ UNCHANGED <<gitingest_installed, upload_to_r2, fired, pexc, pvalue,
                   psummary, pstats, retryVars, notProcessor>>

\* The upload if enabled, the return of the success result, and "finally".
ProcUpload ==
    /\ ppc = "upload"
    /\ IF upload_to_r2
       THEN \E up \in UploadOutcomes :
              /\ puploads' = Append(puploads, <<Persisted(psummary[1]), up>>)
              /\ presult' = <<SuccessResult(Persisted(psummary[1]), up = "stored")>>
       ELSE /\ presult' = <<SuccessResult(Persisted(psummary[1]), FALSE)>>
            /\ UNCHANGED puploads
    /\ alarm' = FALSE
    /\ ppc' = "done"
    /\ UNCHANGED <<gitingest_installed, upload_to_r2, fired, pexc, pvalue,
                   psummary, pstats, retryVars, notProcessor>>

\* "except TimeoutError": alarm(0), record_failure, the timeout result, and
\* "finally".
ProcTimeout ==
    /\ ppc = "timeout"
    /\ alarm' = FALSE
    /\ pstats' = [pstats EXCEPT !.failed = @ + 1]
    /\ presult' = <<FailureResult("Timeout after 5 minutes")>>
    /\ pexc' = ""
    /\ ppc' = "done"
    /\ UNCHANGED <<gitingest_installed, upload_to_r2, fired, pvalue,
                   psummary, puploads, retryVars, notProcessor>>

\* Faulty variant: the finally clause does not cancel the alarm.
ProcFinallyKeepsAlarm ==
    /\ ppc = "finally"
    /\ ppc' = "except"
    /\ UNCHANGED <<gitingest_installed, upload_to_r2, alarm, fired, pexc, pvalue,
                   psummary, pstats, puploads, presult, retryVars, notProcessor>>

\* "finally: signal.alarm(0)" with an exception other than TimeoutError on
\* its way out.
ProcFinally ==
    /\ ppc = "finally"
    /\ alarm' = FALSE
    /\ ppc' = "except"
    /\ UNCHANGED <<gitingest_installed, upload_to_r2, fired, pexc, pvalue,
                   psummary, pstats, puploads, presult, retryVars, notProcessor>>

\* Faulty variant: the outer handler lets the exception through.
ProcExceptPropagates ==
    /\ ppc = "except"
    /\ ppc' = "propagated"
    /\ UNCHANGED <<gitingest_installed, upload_to_r2, alarm, fired, pexc, pvalue,
                   psummary, pstats, puploads, presult, retryVars, notProcessor>>

\* The outer "except Exception as e": record_failure and the result with
\* str(e).
ProcExcept ==
    /\ ppc = "except"
    /\ pstats' = [pstats EXCEPT !.failed = @ + 1]
    /\ presult' = <<FailureResult(IF pexc = "TimeoutError"
                                  THEN "gitingest processing exceeded 5 minute timeout"
                                  ELSE "str(e)")>>
    /\ pexc' = ""
    /\ ppc' = "done"
    /\ UNCHANGED <<gitingest_installed, upload_to_r2, alarm, fired, pvalue,
                   psummary, puploads, retryVars, notProcessor>>

\* The alarm goes off while func() runs: timeout_handler raises TimeoutError
\* inside the call, where retry_with_backoff's "except Exception" catches it.
AlarmDuringCall ==
    /\ alarm
    /\ ppc = "retry"
    /\ rpc = "loop"
    /\ attempt < max_attempts
    /\ calls' = Append(calls, "timeout")
    /\ rpc' = "except"
    /\ alarm' = FALSE
    /\ fired' = "call"
    /\ UNCHANGED <<gitingest_installed, upload_to_r2, ppc, pexc, pvalue, psummary,
                   pstats, puploads, presult,
                   max_attempts, delays, attempt, slept, rresult, notProcessor>>

\* The alarm goes off inside retry_with_backoff's handler or its sleep: the
\* TimeoutError leaves retry_with_backoff.
AlarmDuringBackoff ==
    /\ alarm
    /\ ppc = "retry"
    /\ rpc \in {"except", "sleep"}
    /\ rpc' = "raised"
    /\ rresult' = <<"alarm">>
    /\ alarm' = FALSE
    /\ fired' = IF rpc = "sleep" THEN "sleep" ELSE "handler"
    /\ UNCHANGED <<gitingest_installed, upload_to_r2, ppc, pexc, pvalue, psummary,
                   pstats, puploads, presult,
                   max_attempts, delays, attempt, calls, slept, notProcessor>>

\* The alarm goes off in the rest of the inner try, before signal.alarm(0).
AlarmInTry ==
    /\ alarm
    /\ ppc \in {"extract", "disarm"}
    /\ pexc' = "TimeoutError"
    /\ ppc' = "timeout"
    /\ alarm' = FALSE
    /\ fired' = ppc
    /\ UNCHANGED <<gitingest_installed, upload_to_r2, pvalue, psummary,
                   pstats, puploads, presult, retryVars, notProcessor>>

\* The alarm goes off outside the inner try's body (before it is entered, or
\* in its finally clause before signal.alarm(0)): the TimeoutError reaches the
\* outer handler.
AlarmOutsideTry ==
    /\ alarm
    /\ ppc \in {"armed", "finally"}
    /\ pexc' = "TimeoutError"
    /\ ppc' = "except"
    /\ alarm' = FALSE
    /\ fired' = ppc
    /\ UNCHANGED <<gitingest_installed, upload_to_r2, pvalue, psummary,
                   pstats, puploads, presult, retryVars, notProcessor>>

NextProcess ==
    \/ ProcImport
    \/ ProcArm
    \/ ProcSummarize
    \/ RetryCall
    \/ RetryHandle
    \/ RetrySleep
    \/ ProcRetryEnd
    \/ ProcExtract
    \/ ProcDisarm
    \/ ProcUpload
    \/ ProcTimeout
    \/ ProcFinally
    \/ ProcExcept
    \/ AlarmDuringCall
    \/ AlarmDuringBackoff
    \/ AlarmInTry
    \/ AlarmOutsideTry

SpecProcess == InitProcess /\ [][NextProcess]_vars

\* ---- properties of the repository processor

ProcDone == ppc = "done"

\* C11: if the alarm goes off while process_repository is summarizing (during
\* a retry attempt or a retry sleep), the call returns success=False with the
\* timeout error and the failure counter is incremented exactly once.
C11_AlarmFailsItem ==
    (ProcDone /\ fired \in {"call", "handler", "sleep"}) =>
        /\ presult[1] = FailureResult("Timeout after 5 minutes")
        /\ pstats = [successful |-> 0, failed |-> 1]

\* What the code keeps of C11: an alarm that goes off during a retry sleep,
\* or during the last attempt, fails the item with the timeout error.
AlarmOutsideEarlyAttemptFailsItem ==
    (/\ ProcDone
     /\ \/ fired \in {"handler", "sleep"}
        \/ fired = "call" /\ Len(calls) = IngestMaxAttempts /\ calls[Len(calls)] = "timeout") =>
        /\ presult[1] = FailureResult("Timeout after 5 minutes")
        /\ pstats = [successful |-> 0, failed |-> 1]

\* C12: on every exit path of process_repository (success, timeout,
\* summarizer exception, summarizer library missing, upload failure) no alarm
\* is armed when it returns.
C12_NoAlarmLeftArmed == ProcDone => ~alarm

C12_Witness ==
    /\ ProcDone
    /\ fired = "no"
    /\ calls = <<"err", "err", "err">>
    /\ ~alarm

\* C13: process_repository never lets an exception through to its caller: it
\* returns a result with a boolean success, and a failure result carries the
\* error text and the repo_url.
C13_AlwaysReturnsResult ==
    /\ ppc # "propagated"
    /\ ProcDone =>
         /\ Len(presult) = 1
         /\ presult[1].success \in BOOLEAN
         /\ ~presult[1].success =>
               /\ DOMAIN presult[1] = {"success", "error", "repo_url"}
               /\ presult[1].error # ""
               /\ presult[1].repo_url = "repo_url"

C13_Witness ==
    /\ ProcDone
    /\ fired = "finally"
    /\ ~presult[1].success
    /\ pstats.failed = 1

\* The truncation policy: a text of at most MAX_SUMMARY_SIZE characters is
\* left alone, a longer one is cut to MAX_SUMMARY_SIZE characters and the
\* notice is appended.
TruncatedPerPolicy(t) ==
    IF t.len <= MAX_SUMMARY_SIZE THEN t
    ELSE [t EXCEPT !.len = MAX_SUMMARY_SIZE + NoticeLength, !.notice = TRUE]

\* C15: process_repository returns, and hands to the upload, the summary
\* unchanged when its length is at most 524288 and otherwise its first 524288
\* characters followed by the notice; what is persisted is never longer than
\* 524288 + len(notice).
C15_SummaryTruncated ==
    (ProcDone /\ presult[1].success) =>
        /\ presult[1].summary = TruncatedPerPolicy(ExtractSummary(pvalue[1]))
        /\ \A k \in 1..Len(puploads) :
              /\ puploads[k][1] = TruncatedPerPolicy(ExtractSummary(pvalue[1]))
              /\ puploads[k][1].len <= MAX_SUMMARY_SIZE + NoticeLength

\* C16: the summary is taken from the summary attribute when the value has
\* one (also when the value is a tuple of two), else from the first element
\* of a tuple of two, else from the string form of the value.
C16_ExtractionPriority ==
    (ProcDone /\ presult[1].success) =>
        presult[1].summary.src =
            IF pvalue[1].attr THEN "attr"
            ELSE IF pvalue[1].pair THEN "first"
            ELSE "str"

C16_Witness ==
    /\ ProcDone
    /\ presult[1].success
    /\ pvalue[1].attr
    /\ pvalue[1].pair
    /\ presult[1].summary.src = "attr"

\* C17: when summarization succeeds and the upload fails (it returns False,
\* or the storage client is unavailable), process_repository returns
\* success=True with uploaded=False and the item is counted as successful.
C17_UploadFailureKeepsSuccess ==
    (ProcDone /\ puploads # <<>> /\ puploads[1][2] # "stored") =>
        /\ DOMAIN presult[1] = {"success", "summary", "repo_url", "uploaded"}
        /\ presult[1].success
        /\ ~presult[1].uploaded
        /\ pstats = [successful |-> 1, failed |-> 0]

C17_Witness ==
    /\ ProcDone
    /\ Len(puploads) = 1
    /\ puploads[1][2] = "unavailable"
    /\ presult[1].success
    /\ ~presult[1].uploaded

\* The summarizer is about to be invoked: retry_with_backoff is at "return
\* func()" with an attempt left.
SummarizerInvoked == ppc = "retry" /\ rpc = "loop" /\ attempt < max_attempts

\* C27: every invocation of the summarizer, the second and third attempts of
\* the retry included, runs while the 300-second alarm is pending: the
\* summarizer never runs with no alarm armed.
C27_SummarizerRunsUnderAlarm == SummarizerInvoked => alarm

\* What the code keeps of C27: the first attempt runs under the alarm, and so
\* does every attempt as long as the alarm has not gone off.
AttemptBeforeAlarmFiredRunsUnderAlarm ==
    (SummarizerInvoked /\ (attempt = 0 \/ fired = "no")) => alarm

\* C29: an item is summarized, then uploaded: the upload is attempted at most
\* once per call, and only after the summarizer returned successfully and the
\* alarm was cancelled; there is no upload when summarization failed or timed
\* out, or when upload_to_r2 is False.
C29_UploadOnlyAfterSummary ==
    /\ Len(puploads) <= 1
    /\ ppc = "upload" =>
         /\ ~alarm
         /\ rresult[1] = "value"
         /\ Len(psummary) = 1
         /\ pstats.successful = 1
    /\ puploads # <<>> =>
         /\ upload_to_r2
         /\ ProcDone
         /\ ~alarm
         /\ rresult[1] = "value"
         /\ presult[1].success
         /\ puploads[1][1] = presult[1].summary
    /\ (ProcDone /\ ~presult[1].success) => puploads = <<>>
    /\ ~upload_to_r2 => puploads = <<>>

C29_Witness ==
    /\ ProcDone
    /\ upload_to_r2
    /\ calls = <<"err", "ok">>
    /\ Len(puploads) = 1
    /\ puploads[1][2] = "stored"
    /\ presult[1].uploaded

EveryCallCountedWhenInstalled ==
    (ProcDone /\ gitingest_installed) =>
        /\ pstats.successful + pstats.failed = 1
        /\ pstats.successful = (IF presult[1].success THEN 1 ELSE 0)

(***************************************************************************)
(* Cache client: cache.py, check_cache and update_cache.                   *)
(* The store sits behind an HTTP proxy (the Worker), which is not part of  *)
(* the container's sources: its answers follow the interface description   *)
(* (200 with the entry on a hit, 404 with a reason otherwise).             *)
(* A response is [kind, status, json, dict, reason, pushedAt]:             *)
(*   kind   "response" or "neterr" (requests raised a RequestException)    *)
(*   json   the body parses as JSON                                         *)
(*   dict   the parsed body is an object                                    *)
(*   reason the object's "reason" member, "" when it has none               *)
(*   pushedAt the object's "pushedAt" member, 0 when it has none            *)
(* None is <<>> and an entry e is <<e>>.                                    *)
(***************************************************************************)
Timestamps == {1, 2}

NetErr == [kind |-> "neterr", status |-> 0, json |-> FALSE, dict |-> FALSE,
           reason |-> "", pushedAt |-> 0]
Response(status, json, dict, reason, pushedAt) ==
    [kind |-> "response", status |-> status, json |-> json, dict |-> dict,
     reason |-> reason, pushedAt |-> pushedAt]

\* The proxy's answer to GET /cache/{org}/{repo}?pushedAt=ts when the store
\* holds `stored` for the key.
WorkerGet(stored, ts) ==
    IF stored = ts THEN Response(200, TRUE, TRUE, "", stored)
    ELSE IF stored = 0 THEN Response(404, TRUE, TRUE, "cache-miss", 0)
    ELSE Response(404, TRUE, TRUE, "stale-cache", 0)

\* What can come back instead when the network, a gateway or the proxy fails.
FaultyResponses ==
    { NetErr,
      Response(500, TRUE, TRUE, "", 0),
      Response(500, FALSE, FALSE, "", 0),
      Response(404, TRUE, TRUE, "", 0),
      Response(404, TRUE, FALSE, "", 0),
      Response(404, FALSE, FALSE, "", 0),
      Response(200, FALSE, FALSE, "", 0),
      Response(200, TRUE, FALSE, "", 0) }

Returned(needs, reason, entry) ==
    [raised |-> FALSE, needs_processing |-> needs, reason |-> reason,
     cached_entry |-> entry, exc |-> ""]
Raised(exc) ==
    [raised |-> TRUE, needs_processing |-> FALSE, reason |-> "",
     cached_entry |-> <<>>, exc |-> exc]

\* Mutant: a cache fault is taken for a hit.
FailSafeHit == Returned(FALSE, "cache-hit", <<>>)

\* The fail-safe result of the "else" and "except" branches.
FailSafeMiss == Returned(TRUE, "cache-miss", <<>>)

\* response.json(): <<"ok">> or the exception it raises. A body that is no
\* JSON raises requests' JSONDecodeError, which is a RequestException or only
\* a ValueError depending on the installed requests.
ResponseJson(r, isRequestException) ==
    IF r.json THEN <<"ok">>
    ELSE IF isRequestException THEN <<"RequestException">>
    ELSE <<"ValueError">>

\* Faulty variant: the 404 branch ignores the reason the proxy gave.
CheckNotFoundDropsReason(r) ==
    IF ~r.dict THEN Raised("AttributeError")
    ELSE Returned(TRUE, "cache-miss", <<>>)

\* The 404 branch: data = response.json(); data.get("reason", "cache-miss").
CheckNotFound(r) ==
    IF ~r.dict THEN Raised("AttributeError")
    ELSE Returned(TRUE, IF r.reason = "" THEN "cache-miss" ELSE r.reason, <<>>)

check_cache(r, isRequestException) ==
    IF r.kind = "neterr" THEN FailSafeMiss
    ELSE IF r.status \in {200, 404} /\ ResponseJson(r, isRequestException) # <<"ok">>
         THEN IF ResponseJson(r, isRequestException) = <<"RequestException">>
              THEN FailSafeMiss
              ELSE Raised("ValueError")
    ELSE IF r.status = 200 THEN Returned(FALSE, "cache-hit", <<r.pushedAt>>)
    ELSE IF r.status = 404 THEN CheckNotFound(r)
    ELSE FailSafeMiss

\* What the PUT of update_cache can get: the proxy's 204, another status, or
\* a transport error.
PutResponses ==
    { NetErr,
      Response(204, FALSE, FALSE, "", 0),
      Response(200, TRUE, TRUE, "", 0),
      Response(201, FALSE, FALSE, "", 0),
      Response(404, TRUE, TRUE, "", 0),
      Response(500, FALSE, FALSE, "", 0) }

\* Faulty variant: every 2xx answer counts as a stored entry.
UpdateCacheAnySuccess(r) == r.kind = "response" /\ r.status \in {200, 201, 204}

\* update_cache: True exactly on status 204.
update_cache(r) == r.kind = "response" /\ r.status = 204

InitCache ==
    /\ cStored \in {0} \cup Timestamps
    /\ cPushedAt \in Timestamps
    /\ cResp = <<>>
    /\ cRes = <<>>
    /\ cpc \in {"get", "put"}
    /\ jsonErrorIsRequestException \in BOOLEAN
    /\ PartIdle
    /\ RetryIdle
    /\ OrchIdle
    /\ ProcessorIdle
    /\ StorageIdle
    /\ ProgressIdle
    /\ UploadIdle
    /\ BackendIdle

\* requests.get(url, params, timeout=10)
CacheGet ==
    /\ cpc = "get"
    /\ \E r \in {WorkerGet(cStored, cPushedAt)} \cup FaultyResponses : cResp' = <<r>>
    /\ cpc' = "got"
    /\ UNCHANGED <<cStored, cPushedAt, cRes, jsonErrorIsRequestException, notCache>>

\* the rest of check_cache: the branches on the status code, or the handler
CacheAnswer ==
    /\ cpc = "got"
    /\ cRes' = <<check_cache(cResp[1], jsonErrorIsRequestException)>>
    /\ cpc' = "done"
    /\ UNCHANGED <<cStored, cPushedAt, cResp, jsonErrorIsRequestException, notCache>>

\* requests.put(url, json=entry, timeout=10)
CachePut ==
    /\ cpc = "put"
    /\ \E r \in PutResponses : cResp' = <<r>>
    /\ cpc' = "put_got"
    /\ UNCHANGED <<cStored, cPushedAt, cRes, jsonErrorIsRequestException, notCache>>

\* the rest of update_cache: the test of the status, or the handler
CachePutAnswer ==
    /\ cpc = "put_got"
    /\ cRes' = <<update_cache(cResp[1])>>
    /\ cpc' = "put_done"
    /\ UNCHANGED <<cStored, cPushedAt, cResp, jsonErrorIsRequestException, notCache>>

NextCache == CacheGet \/ CacheAnswer \/ CachePut \/ CachePutAnswer

SpecCache == InitCache /\ [][NextCache]_vars

\* ---- properties of the cache client

CacheDone == cpc = "done"
CleanExchange == cResp[1] = WorkerGet(cStored, cPushedAt)
Malformed ==
    /\ cResp[1].kind = "response"
    /\ cResp[1].status \in {200, 404}
    /\ ~(cResp[1].json /\ cResp[1].dict)

\* Unless the body is malformed, check_cache answers needs_processing=False
\* only when the store holds an entry with this pushedAt, and it always does
\* so on an undisturbed exchange.
CacheHitOnlyIfStored ==
    CacheDone =>
        /\ (~cRes[1].raised /\ ~cRes[1].needs_processing /\ ~Malformed) =>
             cStored = cPushedAt
        /\ CleanExchange =>
             (~cRes[1].raised /\ (cRes[1].needs_processing <=> cStored # cPushedAt))

\* C4: needs_processing is False iff the store holds an entry with this
\* pushedAt; an absent entry, a differing pushedAt, a network error and a
\* malformed response all give needs_processing=True.
C4_NeedsProcessingUnlessStored ==
    CacheDone =>
        /\ (~cRes[1].raised /\ ~cRes[1].needs_processing) => cStored = cPushedAt
        /\ (cStored # cPushedAt \/ cResp[1].kind = "neterr" \/ Malformed) =>
             (~cRes[1].raised /\ cRes[1].needs_processing)

\* C5: a transport error, or a status that is neither 200 nor 404, makes
\* check_cache return {needs_processing: True, reason: cache-miss,
\* cached_entry: None} and raise nothing.
C5_FailSafeOnTransportOrStatus ==
    (CacheDone /\ (cResp[1].kind = "neterr" \/ cResp[1].status \notin {200, 404})) =>
        cRes[1] = Returned(TRUE, "cache-miss", <<>>)

C5_Witness ==
    /\ CacheDone
    /\ cResp[1].kind = "response"
    /\ cResp[1].status = 500
    /\ cStored = cPushedAt
    /\ cRes[1].needs_processing

\* C18: update_cache raises nothing and returns True exactly when the PUT was
\* answered with status 204; every other status and every transport failure
\* give False.
C18_UpdateTrueIffNoContent ==
    cpc = "put_done" =>
        /\ cRes[1] \in BOOLEAN
        /\ cRes[1] <=> (cResp[1].kind = "response" /\ cResp[1].status = 204)

C18_Witness ==
    /\ cpc = "put_done"
    /\ cResp[1].kind = "response"
    /\ cResp[1].status = 200
    /\ cRes[1] = FALSE

MaxRepos == 1
MaxWorkers == 2
MaxFleetRepos == 3
DryRunCount == 100
FetchMaxAttempts == 3

\* <<owner, name, pushedAt>> as listed: complete with either timestamp, or
\* with one member missing.
EntryKinds == {<<1, 1, 1>>, <<1, 1, 2>>, <<0, 1, 1>>, <<1, 0, 1>>, <<1, 1, 0>>}
FleetKinds == {<<1, 1, 1>>}

Entry(i, k) ==
    [pos |-> i - 1, url |-> i, owner |-> k[1],
     name |-> IF k[2] = 1 THEN i ELSE 0, pushedAt |-> k[3]]

FeedsOf(kinds, max) ==
    UNION {{[i \in 1..n |-> Entry(i, k[i])] : k \in [1..n -> kinds]} : n \in 0..max}
Feeds == FeedsOf(EntryKinds, MaxRepos)
FleetFeeds == FeedsOf(FleetKinds, MaxFleetRepos)

Keys == {<<1, u>> : u \in 1..(IF MaxRepos > MaxFleetRepos THEN MaxRepos ELSE MaxFleetRepos)}
EmptyStore == [k \in Keys |-> 0]

\* The feed a dry run makes up instead of fetching.
DryRunRepos ==
    [i \in 1..DryRunCount |->
        [pos |-> i - 1, url |-> 1000 + i, owner |-> 1, name |-> 1000 + i, pushedAt |-> 1]]

\* Faulty variant: an entry without pushedAt is taken as complete.
MissingFieldsIgnoresPushedAt(e) == e.owner = 0 \/ e.name = 0

\* "not org or not name or not pushed_at"
MissingFields(e) == e.owner = 0 \/ e.name = 0 \/ e.pushedAt = 0

\* Mutant: the status is read the wrong way round.
NeedsProcessingInverted(cache_status, url) ==
    IF url \in DOMAIN cache_status THEN ~cache_status[url] ELSE TRUE

\* "cache_status.get(repo["url"], True)"
NeedsProcessing(cache_status, url) ==
    IF url \in DOMAIN cache_status THEN cache_status[url] ELSE TRUE

\* Mutant: the entry written carries no pushedAt.
CacheEntryWithoutPushedAt(e) == 0

\* The "pushedAt" of the cache_entry written after a success.
CacheEntryPushedAt(e) == e.pushedAt

\* Whether main writes the cache entry of entry e after its result res:
\* "if result.get("success")" and "if CACHE_AVAILABLE and org and ...".
ShouldUpdateCache(available, res, e) ==
    res.success /\ available /\ ~MissingFields(e)

\* process_repository(repo_url, upload_to_r2=True), given whether the
\* summarizer succeeds (within its retries and timeout) and whether the
\* upload does.
process_repository(summarized, uploaded) ==
    IF summarized THEN [success |-> TRUE, uploaded |-> uploaded]
    ELSE [success |-> FALSE, uploaded |-> FALSE]

NewProcess(batch_size, offset, dry_run) ==
    [pc |-> "start", exit_code |-> -1,
     batch_size |-> batch_size, offset |-> offset, dry_run |-> dry_run,
     fetch_attempt |-> 0,
     repos |-> <<>>, batch_repos |-> <<>>, cache_status |-> <<>>, ci |-> 0,
     repos_to_process |-> <<>>, cached_count |-> 0, idx |-> 0,
     processed_count |-> 0, successful |-> 0, failed |-> 0, result |-> <<>>,
     current_state |-> [repos_processed |-> 0, batch_size |-> 1, offset |-> 0],
     state_file |-> <<>>, summary |-> <<>>,
     trace |-> <<>>, cache_faults |-> FALSE]

\* The process is gone: what is left of it is its exit code, the state file
\* and what it did (trace, cache_faults).
Exit(p, code) ==
    [NewProcess(p.batch_size, p.offset, p.dry_run) EXCEPT
        !.pc = "exit", !.exit_code = code, !.state_file = p.state_file,
        !.trace = p.trace, !.cache_faults = p.cache_faults]

\* A single worker with any arguments, run after run.
Init ==
    /\ feed \in Feeds
    /\ store = EmptyStore
    /\ CACHE_AVAILABLE \in BOOLEAN
    /\ \E b \in 1..MaxWorkers, o \in (-1)..MaxWorkers, d \in BOOLEAN :
         proc = [w \in {0} |-> NewProcess(b, o, d)]
    /\ prevOk = {}
    /\ PartIdle
    /\ RetryIdle
    /\ CacheIdle
    /\ ProcessorIdle
    /\ StorageIdle
    /\ ProgressIdle
    /\ UploadIdle
    /\ BackendIdle

\* B workers with the same batch size B, the offsets 0..B-1 and the same feed
\* snapshot, none of them a dry run.
InitFleet ==
    /\ feed \in FleetFeeds
    /\ store = EmptyStore
    /\ CACHE_AVAILABLE \in BOOLEAN
    /\ \E b \in 1..MaxWorkers : proc = [w \in 0..(b - 1) |-> NewProcess(b, w, FALSE)]
    /\ prevOk = {}
    /\ PartIdle
    /\ RetryIdle
    /\ CacheIdle
    /\ ProcessorIdle
    /\ StorageIdle
    /\ ProgressIdle
    /\ UploadIdle
    /\ BackendIdle

\* One worker of a fleet, with valid arguments, on a feed of several entries
\* and a store that earlier runs have filled in part; no dry run.
InitWorker ==
    /\ feed \in FleetFeeds
    /\ store \in [Keys -> {0, 1}]
    /\ CACHE_AVAILABLE \in BOOLEAN
    /\ \E b \in 1..MaxWorkers, o \in 0..(MaxWorkers - 1) :
         /\ o < b
         /\ proc = [w \in {0} |-> NewProcess(b, o, FALSE)]
    /\ prevOk = {}
    /\ PartIdle
    /\ RetryIdle
    /\ CacheIdle
    /\ ProcessorIdle
    /\ StorageIdle
    /\ ProgressIdle
    /\ UploadIdle
    /\ BackendIdle

\* signal.signal(SIGTERM, ...), parse_args, the validation of the arguments
\* and the update of current_state.
Start(w) ==
    /\ proc[w].pc = "start"
    /\ LET p == proc[w] IN
       proc' = [proc EXCEPT ![w] =
         IF p.offset >= p.batch_size THEN Exit(p, 2)
         ELSE [p EXCEPT !.pc = "fetch",
                        !.current_state.batch_size = p.batch_size,
                        !.current_state.offset = p.offset]]
    /\ UNCHANGED <<feed, store, CACHE_AVAILABLE, prevOk, notOrch>>

\* Faulty variant: fetch_repos_json gives up at the first failed request.
FetchWithoutRetry(w) ==
    /\ proc[w].pc = "fetch"
    /\ LET p == proc[w] IN
       IF p.dry_run
       THEN proc' = [proc EXCEPT ![w] = [p EXCEPT !.pc = "filter", !.repos = DryRunRepos]]
       ELSE \/ proc' = [proc EXCEPT ![w] = [p EXCEPT !.pc = "filter", !.repos = feed]]
            \/ proc' = [proc EXCEPT ![w] = Exit(p, 1)]
    /\ UNCHANGED <<feed, store, CACHE_AVAILABLE, prevOk, notOrch>>

\* Step 1: the made-up feed of a dry run, or one attempt of
\* fetch_repos_json(): retry_with_backoff(fetch, max_attempts=3, delays=[1, 2, 4]).
\* The GET answers with the feed, which is returned; or the attempt fails
\* (transport error, HTTP error status, a body that is no JSON) and is
\* followed, after the sleep, by the next one, unless it was the last: then
\* the exception is raised again and main's handler exits with code 1.
Fetch(w) ==
    /\ proc[w].pc = "fetch"
    /\ LET p == proc[w] IN
       IF p.dry_run
       THEN proc' = [proc EXCEPT ![w] = [p EXCEPT !.pc = "filter", !.repos = DryRunRepos]]
       ELSE /\ p.fetch_attempt < FetchMaxAttempts
            /\ \/ proc' = [proc EXCEPT ![w] =
                    [p EXCEPT !.pc = "filter", !.repos = feed, !.fetch_attempt = 0]]
               \/ proc' = [proc EXCEPT ![w] =
                    IF IsLastAttempt(p.fetch_attempt, FetchMaxAttempts)
                    THEN Exit(p, 1)
                    ELSE [p EXCEPT !.fetch_attempt = @ + 1]]
    /\ UNCHANGED <<feed, store, CACHE_AVAILABLE, prevOk, notOrch>>

AllStatus(repos, b) == [u \in {repos[i].url : i \in 1..Len(repos)} |-> b]

\* Step 2, and the part of step 3 that makes no request: a dry run takes
\* every repository as cached, and without the cache module
\* check_cache_status marks every repository as needing processing.
FilterBatch(w) ==
    /\ proc[w].pc = "filter"
    /\ LET p == proc[w]
           batch == filter_repos_for_batch(p.repos, p.batch_size, p.offset)
       IN proc' = [proc EXCEPT ![w] =
            IF p.dry_run
            THEN [p EXCEPT !.pc = "select", !.batch_repos = batch,
                           !.cache_status = AllStatus(batch, FALSE)]
            ELSE IF ~CACHE_AVAILABLE
            THEN [p EXCEPT !.pc = "select", !.batch_repos = batch,
                           !.cache_status = AllStatus(batch, TRUE)]
            ELSE [p EXCEPT !.pc = "cache", !.batch_repos = batch, !.ci = 0]]
    /\ UNCHANGED <<feed, store, CACHE_AVAILABLE, prevOk, notOrch>>

\* The answers the orchestrator's request can get: the proxy's, a transport
\* error, an unexpected status, or a 404 whose body is no object. (A body
\* that is no JSON gives one of the outcomes these already give.)
OrchResponses(stored, ts) ==
    {WorkerGet(stored, ts), NetErr,
     Response(500, TRUE, TRUE, "", 0), Response(404, TRUE, FALSE, "", 0)}

\* One iteration of the loop of check_cache_status. An exception of
\* check_cache leaves check_cache_status and is caught by main (exit code 1).
CheckCacheStatus(w) ==
    /\ proc[w].pc = "cache"
    /\ proc[w].ci < Len(proc[w].batch_repos)
    /\ LET p == proc[w]
           e == p.batch_repos[p.ci + 1]
       IN IF MissingFields(e)
          THEN proc' = [proc EXCEPT ![w] =
                 [p EXCEPT !.cache_status = (e.url :> TRUE) @@ @, !.ci = @ + 1]]
          ELSE \E r \in OrchResponses(store[<<e.owner, e.name>>], e.pushedAt) :
                 LET res == check_cache(r, TRUE)
                     q == [p EXCEPT !.cache_faults =
                             @ \/ r # WorkerGet(store[<<e.owner, e.name>>], e.pushedAt)]
                 IN proc' = [proc EXCEPT ![w] =
                      IF res.raised THEN Exit(q, 1)
                      ELSE [q EXCEPT
                              !.cache_status = (e.url :> res.needs_processing) @@ @,
                              !.ci = @ + 1,
                              !.trace = Append(@, <<"check", e.pos, res.needs_processing>>)]]
    /\ UNCHANGED <<feed, store, CACHE_AVAILABLE, prevOk, notOrch>>

\* The end of check_cache_status.
CheckCacheDone(w) ==
    /\ proc[w].pc = "cache"
    /\ proc[w].ci = Len(proc[w].batch_repos)
    /\ proc' = [proc EXCEPT ![w].pc = "select"]
    /\ UNCHANGED <<feed, store, CACHE_AVAILABLE, prevOk, notOrch>>

\* Faulty variant: cached_count is the size of the whole batch.
SelectCountsAllCached(w) ==
    /\ proc[w].pc = "select"
    /\ LET p == proc[w]
           todo == SelectSeq(p.batch_repos,
                             LAMBDA e : NeedsProcessing(p.cache_status, e.url))
       IN proc' = [proc EXCEPT ![w] =
            [p EXCEPT !.pc = "loop", !.repos_to_process = todo,
                      !.cached_count = Len(p.batch_repos),
                      !.idx = 0, !.processed_count = 0,
                      !.successful = 0, !.failed = 0]]
    /\ UNCHANGED <<feed, store, CACHE_AVAILABLE, prevOk, notOrch>>

\* "repos_to_process = [repo for repo in batch_repos if cache_status.get(...)]",
\* cached_count and the fresh ProcessingStats.
Select(w) ==
    /\ proc[w].pc = "select"
    /\ LET p == proc[w]
           todo == SelectSeq(p.batch_repos,
                             LAMBDA e : NeedsProcessing(p.cache_status, e.url))
       IN proc' = [proc EXCEPT ![w] =
            [p EXCEPT !.pc = "loop", !.repos_to_process = todo,
                      !.cached_count = Len(p.batch_repos) - Len(todo),
                      !.idx = 0, !.processed_count = 0,
                      !.successful = 0, !.failed = 0]]
    /\ UNCHANGED <<feed, store, CACHE_AVAILABLE, prevOk, notOrch>>

\* Faulty variant: the loop takes the items from the end of the list.
ProcessLastFirst(w) ==
    /\ proc[w].pc = "loop"
    /\ proc[w].idx < Len(proc[w].repos_to_process)
    /\ LET p == proc[w]
           e == p.repos_to_process[Len(p.repos_to_process) - p.idx]
       IN IF p.dry_run
          THEN proc' = [proc EXCEPT ![w] =
                 [p EXCEPT !.successful = @ + 1, !.processed_count = @ + 1,
                           !.current_state.repos_processed = p.processed_count + 1,
                           !.idx = @ + 1]]
          ELSE \E summarized \in BOOLEAN, uploaded \in BOOLEAN :
                 LET res == process_repository(summarized, uploaded)
                 IN proc' = [proc EXCEPT ![w] =
                      [p EXCEPT !.pc = "record", !.result = <<res>>,
                                !.successful = IF res.success THEN @ + 1 ELSE @,
                                !.failed = IF res.success THEN @ ELSE @ + 1,
                                !.trace = Append(@, <<"process", e.pos, res.success, res.uploaded>>)]]
    /\ UNCHANGED <<feed, store, CACHE_AVAILABLE, prevOk, notOrch>>

\* The first half of an iteration of the processing loop: the made-up success
\* of a dry run, or the call of process_repository and the recording of its
\* outcome in the statistics (record_success, record_failure).
Process(w) ==
    /\ proc[w].pc = "loop"
    /\ proc[w].idx < Len(proc[w].repos_to_process)
    /\ LET p == proc[w]
           e == p.repos_to_process[p.idx + 1]
       IN IF p.dry_run
          THEN proc' = [proc EXCEPT ![w] =
                 [p EXCEPT !.successful = @ + 1, !.processed_count = @ + 1,
                           !.current_state.repos_processed = p.processed_count + 1,
                           !.idx = @ + 1]]
          ELSE \E summarized \in BOOLEAN, uploaded \in BOOLEAN :
                 LET res == process_repository(summarized, uploaded)
                 IN proc' = [proc EXCEPT ![w] =
                      [p EXCEPT !.pc = "record", !.result = <<res>>,
                                !.successful = IF res.success THEN @ + 1 ELSE @,
                                !.failed = IF res.success THEN @ ELSE @ + 1,
                                !.trace = Append(@, <<"process", e.pos, res.success, res.uploaded>>)]]
    /\ UNCHANGED <<feed, store, CACHE_AVAILABLE, prevOk, notOrch>>

\* The second half: after a success the cache update, where update_cache
\* gets 204 (the entry is stored) or fails; then "processed_count += 1" and
\* "current_state['repos_processed'] = processed_count", and the for
\* statement takes the next item.
Record(w) ==
    /\ proc[w].pc = "record"
    /\ LET p == proc[w]
           e == p.repos_to_process[p.idx + 1]
           res == p.result[1]
           next == [p EXCEPT !.pc = "loop", !.result = <<>>,
                             !.processed_count = @ + 1,
                             !.current_state.repos_processed = p.processed_count + 1,
                             !.idx = @ + 1]
       IN IF ShouldUpdateCache(CACHE_AVAILABLE, res, e)
          THEN \E r \in {Response(204, FALSE, FALSE, "", 0), Response(500, FALSE, FALSE, "", 0), NetErr} :
                 /\ store' = IF update_cache(r)
                             THEN [store EXCEPT ![<<e.owner, e.name>>] = CacheEntryPushedAt(e)]
                             ELSE store
                 /\ proc' = [proc EXCEPT ![w] =
                      [next EXCEPT !.trace = Append(@, <<"update", e.pos, update_cache(r)>>),
                                   !.cache_faults = @ \/ ~update_cache(r)]]
          ELSE /\ proc' = [proc EXCEPT ![w] = next]
               /\ UNCHANGED store
    /\ UNCHANGED <<feed, CACHE_AVAILABLE, prevOk, notOrch>>

\* Faulty variant: the summary reports the two counters the wrong way round.
FinishCountsSwapped(w) ==
    /\ proc[w].pc = "loop"
    /\ proc[w].idx = Len(proc[w].repos_to_process)
    /\ LET p == proc[w] IN
       proc' = [proc EXCEPT ![w] =
         [Exit(p, 0) EXCEPT !.summary =
            <<[total_repos |-> Len(p.batch_repos), cached |-> p.cached_count,
               processed |-> p.failed, failed |-> p.successful]>>]]
    /\ UNCHANGED <<feed, store, CACHE_AVAILABLE, prevOk, notOrch>>

\* Step 5: log_final_summary and sys.exit(0).
Finish(w) ==
    /\ proc[w].pc = "loop"
    /\ proc[w].idx = Len(proc[w].repos_to_process)
    /\ LET p == proc[w] IN
       proc' = [proc EXCEPT ![w] =
         [Exit(p, 0) EXCEPT !.summary =
            <<[total_repos |-> Len(p.batch_repos), cached |-> p.cached_count,
               processed |-> p.successful, failed |-> p.failed]>>]]
    /\ UNCHANGED <<feed, store, CACHE_AVAILABLE, prevOk, notOrch>>

\* Faulty variant: a state file that cannot be written ends the process with
\* an error code.
SigtermFailsOnWriteError(w) ==
    /\ proc[w].pc # "exit"
    /\ LET p == proc[w] IN
       \E written \in BOOLEAN :
         proc' = [proc EXCEPT ![w] =
           IF written THEN [Exit(p, 0) EXCEPT !.state_file = <<p.current_state>>]
           ELSE Exit(p, 1)]
    /\ UNCHANGED <<feed, store, CACHE_AVAILABLE, prevOk, notOrch>>

\* graceful_shutdown: SIGTERM at any moment once the handler is registered.
\* The state file is written, or the write fails; the process exits with 0.
Sigterm(w) ==
    /\ proc[w].pc # "exit"
    /\ LET p == proc[w] IN
       \E written \in BOOLEAN :
         proc' = [proc EXCEPT ![w] =
           [Exit(p, 0) EXCEPT !.state_file =
              IF written THEN <<p.current_state>> ELSE p.state_file]]
    /\ UNCHANGED <<feed, store, CACHE_AVAILABLE, prevOk, notOrch>>

\* The (url, pushedAt) whose cache entry process p has written.
UpdatedOk(p) ==
    {<<feed[i].url, feed[i].pushedAt>> :
        i \in {j \in 1..Len(feed) :
                 \E k \in 1..Len(p.trace) : p.trace[k] = <<"update", feed[j].pos, TRUE>>}}

\* The worker has exited; it is started again, with the same arguments, on a
\* new snapshot of the feed. The store is kept.
NextRun ==
    /\ \A w \in DOMAIN proc : proc[w].pc = "exit"
    /\ feed' \in Feeds
    /\ prevOk' = UNION {UpdatedOk(proc[w]) : w \in DOMAIN proc}
    /\ proc' = [w \in DOMAIN proc |->
                  NewProcess(proc[w].batch_size, proc[w].offset, proc[w].dry_run)]
    /\ UNCHANGED <<store, CACHE_AVAILABLE, notOrch>>

Next ==
    \/ \E w \in DOMAIN proc : Start(w)
    \/ \E w \in DOMAIN proc : Fetch(w)
    \/ \E w \in DOMAIN proc : FilterBatch(w)
    \/ \E w \in DOMAIN proc : CheckCacheStatus(w)
    \/ \E w \in DOMAIN proc : CheckCacheDone(w)
    \/ \E w \in DOMAIN proc : Select(w)
    \/ \E w \in DOMAIN proc : Process(w)
    \/ \E w \in DOMAIN proc : Record(w)
    \/ \E w \in DOMAIN proc : Finish(w)
    \/ \E w \in DOMAIN proc : Sigterm(w)
    \/ NextRun

NextFleet ==
    \/ \E w \in DOMAIN proc : Start(w)
    \/ \E w \in DOMAIN proc : Fetch(w)
    \/ \E w \in DOMAIN proc : FilterBatch(w)
    \/ \E w \in DOMAIN proc : CheckCacheStatus(w)
    \/ \E w \in DOMAIN proc : CheckCacheDone(w)
    \/ \E w \in DOMAIN proc : Select(w)
    \/ \E w \in DOMAIN proc : Process(w)
    \/ \E w \in DOMAIN proc : Record(w)
    \/ \E w \in DOMAIN proc : Finish(w)
    \/ \E w \in DOMAIN proc : Sigterm(w)

Spec == Init /\ [][Next]_vars

SpecFleet == InitFleet /\ [][NextFleet]_vars
SpecWorker == InitWorker /\ [][NextFleet]_vars

\* ---- properties of the orchestrator

\* process p called process_repository for the feed entry at position pos
Invoked(p, pos) ==
    \E k \in 1..Len(p.trace) : p.trace[k][1] = "process" /\ p.trace[k][2] = pos
InvokedCount(p, pos) ==
    Cardinality({k \in 1..Len(p.trace) : p.trace[k][1] = "process" /\ p.trace[k][2] = pos})
\* process p reached the end of main (and was not stopped on the way)
Completed(p) == p.pc = "exit" /\ p.summary # <<>>

\* C3: B workers with batch size B, offsets 0..B-1 and one feed snapshot,
\* every cache check reporting needs-processing: under every interleaving no
\* feed entry is handed to process_repository twice, by one worker or by two,
\* and once all workers have completed every entry was handed over exactly
\* once.
C3_FleetProcessesEachOnce ==
    /\ \A w \in DOMAIN proc :
         LET t == proc[w].trace IN
         \A k1 \in 1..Len(t), k2 \in 1..Len(t) :
            (k1 < k2 /\ t[k1][1] = "process" /\ t[k2][1] = "process") =>
                t[k1][2] # t[k2][2]
    /\ \A w1 \in DOMAIN proc, w2 \in DOMAIN proc :
         w1 < w2 =>
            LET t1 == proc[w1].trace
                t2 == proc[w2].trace
            IN \A k1 \in 1..Len(t1), k2 \in 1..Len(t2) :
                  (t1[k1][1] = "process" /\ t2[k2][1] = "process") =>
                      t1[k1][2] # t2[k2][2]
    /\ (\A w \in DOMAIN proc : Completed(proc[w])) =>
         \A pos \in 0..(Len(feed) - 1) :
            Cardinality({w \in DOMAIN proc : InvokedCount(proc[w], pos) = 1}) = 1

C3_Witness ==
    /\ Cardinality(DOMAIN proc) = 2
    /\ Len(feed) = 3
    /\ \A w \in DOMAIN proc : Completed(proc[w])
    /\ Invoked(proc[0], 0) /\ Invoked(proc[1], 1) /\ Invoked(proc[0], 2)

\* C6: a cache entry is written only after a fully successful
\* summarize-and-upload cycle: update_cache is called for an entry only when
\* its process_repository result had success=True and uploaded=True.
C6_CacheWrittenOnlyAfterUpload ==
    \A w \in DOMAIN proc :
        \A k \in 1..Len(proc[w].trace) :
            proc[w].trace[k][1] = "update" =>
                \E j \in 1..(k - 1) :
                    proc[w].trace[j] = <<"process", proc[w].trace[k][2], TRUE, TRUE>>

\* The part of C6 the code keeps: no cache entry is written after a failed
\* summarization.
CacheWrittenOnlyAfterSuccess ==
    \A w \in DOMAIN proc :
        \A k \in 1..Len(proc[w].trace) :
            proc[w].trace[k][1] = "update" =>
                \E j \in 1..(k - 1), u \in BOOLEAN :
                    proc[w].trace[j] = <<"process", proc[w].trace[k][2], TRUE, u>>

\* C7: process_repository is never called for a repository whose cache check
\* returned needs_processing=False, and a run that completes has called it for
\* every repository whose check returned needs_processing=True.
C7_ProcessedIffNeeded ==
    \A w \in DOMAIN proc :
        \A k \in 1..Len(proc[w].trace) :
            proc[w].trace[k][1] = "check" =>
                /\ ~proc[w].trace[k][3] => ~Invoked(proc[w], proc[w].trace[k][2])
                /\ (proc[w].trace[k][3] /\ Completed(proc[w])) =>
                      Invoked(proc[w], proc[w].trace[k][2])

C7_Witness ==
    /\ prevOk # {}
    /\ Completed(proc[0])
    /\ \E k \in 1..Len(proc[0].trace) : proc[0].trace[k] = <<"check", 0, TRUE>>
    /\ Invoked(proc[0], 0)

\* C8: with a reliable store, a repository (owner, name and pushedAt listed)
\* that the previous run processed successfully, with update_cache returning
\* True, is not handed to process_repository by a run whose feed lists the
\* same pushedAt, and is handed to it by a completed run whose feed lists
\* another pushedAt.
C8_SecondRunSkipsUnchanged ==
    \A w \in DOMAIN proc :
        \A i \in 1..Len(feed) :
            (/\ ~proc[w].cache_faults
             /\ ~proc[w].dry_run
             /\ ~MissingFields(feed[i])
             /\ \E ts \in Timestamps : <<feed[i].url, ts>> \in prevOk) =>
                /\ <<feed[i].url, feed[i].pushedAt>> \in prevOk =>
                      ~Invoked(proc[w], feed[i].pos)
                /\ (/\ <<feed[i].url, feed[i].pushedAt>> \notin prevOk
                    /\ Completed(proc[w])
                    /\ feed[i].pos % proc[w].batch_size = proc[w].offset) =>
                      Invoked(proc[w], feed[i].pos)

C8_Witness ==
    /\ Len(feed) = 1
    /\ <<feed[1].url, feed[1].pushedAt>> \in prevOk
    /\ Completed(proc[0])
    /\ ~proc[0].cache_faults
    /\ proc[0].trace = <<<<"check", 0, FALSE>>>>

\* The results of the calls of process_repository, in the order of the calls.
Outcomes(p) ==
    LET calls_made == SelectSeq(p.trace, LAMBDA e : e[1] = "process")
    IN [k \in 1..Len(calls_made) |-> calls_made[k][3]]
CountOf(seq, b) == Cardinality({k \in 1..Len(seq) : seq[k] = b})
\* The feed positions of the partition of process p.
Partition(p) == {pos \in 0..(Len(feed) - 1) : pos % p.batch_size = p.offset}

\* C14: whatever the outcomes of the items, the orchestrator calls
\* process_repository for every item needing processing (here: every item of
\* the partition), earlier failures notwithstanding, and ends with exit code
\* 0; the summary counts the successes and the failures, so three items of
\* which the middle one fails give successful=2 and failed=1.
C14_FailuresDoNotAbort ==
    \A w \in DOMAIN proc :
        /\ (proc[w].pc = "exit" /\ Outcomes(proc[w]) # <<>>) => proc[w].exit_code = 0
        /\ Completed(proc[w]) =>
              /\ proc[w].exit_code = 0
              /\ \A pos \in Partition(proc[w]) : Invoked(proc[w], pos)
              /\ proc[w].summary[1].processed = CountOf(Outcomes(proc[w]), TRUE)
              /\ proc[w].summary[1].failed = CountOf(Outcomes(proc[w]), FALSE)
        /\ (Completed(proc[w]) /\ Outcomes(proc[w]) = <<TRUE, FALSE, TRUE>>) =>
              (proc[w].summary[1].processed = 2 /\ proc[w].summary[1].failed = 1)

C14_Witness ==
    /\ DOMAIN proc = {0}
    /\ Len(feed) = 3
    /\ Completed(proc[0])
    /\ Outcomes(proc[0]) = <<TRUE, FALSE, TRUE>>
    /\ proc[0].exit_code = 0
    /\ proc[0].summary[1].processed = 2
    /\ proc[0].summary[1].failed = 1

\* C19: a SIGTERM that arrives once the handler is registered, in any state
\* of the run (the middle of an item included), makes the handler write
\* repos_processed, batch_size and offset as they are at that moment to the
\* state file, and the process exits with code 0; it exits with code 0 also
\* when the file cannot be written.
C19_SigtermSavesAndExits ==
    [][\A w \in DOMAIN proc :
         Sigterm(w) =>
            /\ proc'[w].pc = "exit"
            /\ proc'[w].exit_code = 0
            /\ \/ proc'[w].state_file = <<proc[w].current_state>>
               \/ proc'[w].state_file = proc[w].state_file]_vars

C19_Witness ==
    /\ proc[0].pc = "exit"
    /\ proc[0].exit_code = 0
    /\ proc[0].summary = <<>>
    /\ proc[0].trace = <<<<"process", 0, TRUE, TRUE>>>>
    /\ proc[0].state_file =
          <<[repos_processed |-> 0, batch_size |-> proc[0].batch_size,
             offset |-> proc[0].offset]>>

\* C20: whenever 0 <= offset < batch-size does not hold, the run exits with
\* code 2 before the feed is fetched or any item is processed (unless a
\* signal ends it first).
C20_InvalidArgumentsExitTwo ==
    \A w \in DOMAIN proc :
        ~(0 <= proc[w].offset /\ proc[w].offset < proc[w].batch_size) =>
            /\ proc[w].pc \in {"start", "exit"}
            /\ proc[w].pc = "exit" =>
                  \/ proc[w].exit_code = 2
                  \/ proc[w].exit_code = 0 /\ proc[w].summary = <<>>

\* What the code keeps of C20: an offset that is not below the batch size
\* ends the run with code 2 before the feed is fetched.
OffsetNotBelowBatchSizeExitsTwo ==
    \A w \in DOMAIN proc :
        proc[w].offset >= proc[w].batch_size =>
            /\ proc[w].pc \in {"start", "exit"}
            /\ proc[w].pc = "exit" =>
                  \/ proc[w].exit_code = 2
                  \/ proc[w].exit_code = 0 /\ proc[w].summary = <<>>

\* C21: fetch_repos_json attempts the GET of the feed at most 3 times and
\* returns the first successful response; when all 3 attempts fail it raises
\* and the run exits with code 1 without process_repository having been
\* invoked.
C21_FetchAtMostThreeAttempts ==
    [][\A w \in DOMAIN proc :
         (proc[w].pc = "fetch" /\ ~proc[w].dry_run /\ proc'[w] # proc[w]) =>
            /\ proc[w].fetch_attempt \in 0..2
            /\ proc'[w].pc = "fetch" =>
                  /\ proc[w].fetch_attempt < 2
                  /\ proc'[w].fetch_attempt = proc[w].fetch_attempt + 1
            /\ proc'[w].pc = "filter" => proc'[w].repos = feed
            /\ (proc'[w].pc = "exit" /\ proc'[w].exit_code = 1) =>
                  /\ proc[w].fetch_attempt = 2
                  /\ \A k \in 1..Len(proc'[w].trace) : proc'[w].trace[k][1] # "process"
            /\ proc'[w].pc \in {"fetch", "filter", "exit"}]_vars

C21_Witness ==
    /\ DOMAIN proc = {0}
    /\ ~proc[0].dry_run
    /\ proc[0].pc = "exit"
    /\ proc[0].exit_code = 1
    /\ ~proc[0].cache_faults
    /\ proc[0].trace = <<>>
    /\ Len(feed) = 1

\* The positions a dry run of process p is assigned of its made-up feed.
DryRunPartition(p) == {pos \in 0..(DryRunCount - 1) : pos % p.batch_size = p.offset}

\* C22: a dry run calls neither the summarizer nor the upload nor the cache
\* update, and records every item of its partition as a simulated success:
\* at the end successful is the size of the partition and failed is 0.
C22_DryRunCountsEveryItem ==
    \A w \in DOMAIN proc :
        /\ proc[w].dry_run => proc[w].trace = <<>>
        /\ (Completed(proc[w]) /\ proc[w].dry_run) =>
              /\ proc[w].summary[1].processed = Cardinality(DryRunPartition(proc[w]))
              /\ proc[w].summary[1].failed = 0

\* What the code keeps of C22: a dry run of the orchestrator makes no call
\* and leaves the store alone; it reports its whole partition as cached and
\* nothing as processed.
DryRunCallsNothing ==
    \A w \in DOMAIN proc :
        /\ proc[w].dry_run => (proc[w].trace = <<>> /\ store = EmptyStore)
        /\ (Completed(proc[w]) /\ proc[w].dry_run) =>
              proc[w].summary[1] =
                 [total_repos |-> Cardinality(DryRunPartition(proc[w])),
                  cached |-> Cardinality(DryRunPartition(proc[w])),
                  processed |-> 0, failed |-> 0]

\* The number of cache checks of process p that answered "cached".
CacheHits(p) ==
    Cardinality({k \in 1..Len(p.trace) : p.trace[k][1] = "check" /\ ~p.trace[k][3]})

\* C25: at the normal completion of a run that is no dry run the summary
\* reports total = the size of the partition, cached = the cache hits,
\* processed = the successes and failed = the failures, and
\* cached + processed + failed = total.
C25_SummaryAddsUp ==
    \A w \in DOMAIN proc :
        (Completed(proc[w]) /\ ~proc[w].dry_run) =>
            LET sm == proc[w].summary[1] IN
            /\ sm.total_repos = Cardinality(Partition(proc[w]))
            /\ sm.cached = CacheHits(proc[w])
            /\ sm.processed = CountOf(Outcomes(proc[w]), TRUE)
            /\ sm.failed = CountOf(Outcomes(proc[w]), FALSE)
            /\ sm.cached + sm.processed + sm.failed = sm.total_repos

C25_Witness ==
    /\ DOMAIN proc = {0}
    /\ Completed(proc[0])
    /\ ~proc[0].dry_run
    /\ proc[0].summary[1] = [total_repos |-> 1, cached |-> 1, processed |-> 0, failed |-> 0]
    /\ CacheHits(proc[0]) = 1

\* The positions process p handed to process_repository, in the order of the
\* calls.
InvokedPositions(p) ==
    LET calls_made == SelectSeq(p.trace, LAMBDA e : e[1] = "process")
    IN [k \in 1..Len(calls_made) |-> calls_made[k][2]]

\* C28: within one worker process_repository is invoked on the items needing
\* processing strictly in the order of the partition, each exactly once, and
\* a call starts only after the previous one has returned.
C28_SequentialInPartitionOrder ==
    \A w \in DOMAIN proc :
        LET p == proc[w]
            seq == InvokedPositions(p)
        IN /\ \A k \in 1..Len(seq) : seq[k] \in Partition(p)
           /\ \A k \in 1..(Len(seq) - 1) : seq[k] < seq[k + 1]
           /\ p.pc \in {"loop", "record"} =>
                 /\ Len(seq) = p.idx + (IF p.pc = "record" THEN 1 ELSE 0)
                 /\ \A k \in 1..Len(seq) : seq[k] = p.repos_to_process[k].pos
                 /\ p.pc = "record" => p.result # <<>>
           /\ Completed(p) =>
                 \A pos \in Partition(p) :
                    InvokedCount(p, pos) =
                       IF \E k \in 1..Len(p.trace) : p.trace[k] = <<"check", pos, FALSE>>
                       THEN 0 ELSE 1

C28_Witness ==
    /\ Len(feed) = 3
    /\ proc[0].batch_size = 1
    /\ Completed(proc[0])
    /\ \E k \in 1..Len(proc[0].trace) : proc[0].trace[k] = <<"check", 1, FALSE>>
    /\ InvokedPositions(proc[0]) = <<0, 2>>
    /\ Outcomes(proc[0]) = <<FALSE, TRUE>>

SnapshotMissesAtMostOneItem ==
    \A w \in DOMAIN proc :
        (proc[w].pc = "exit" /\ proc[w].state_file # <<>>) =>
            /\ proc[w].state_file[1].repos_processed <= Len(Outcomes(proc[w]))
            /\ Len(Outcomes(proc[w])) <= proc[w].state_file[1].repos_processed + 1

\* C33: at every point of a run after the validation of the arguments the
\* checkpoint state is consistent: repos_processed is the number of items
\* whose processing has completed (stats.successful + stats.failed), it is at
\* most the number of items needing processing, and batch_size and offset are
\* the validated arguments.
C33_CheckpointConsistent ==
    \A w \in DOMAIN proc :
        proc[w].pc \notin {"start", "exit"} =>
            /\ proc[w].current_state.repos_processed =
                   proc[w].successful + proc[w].failed
            /\ proc[w].current_state.repos_processed <= Len(proc[w].repos_to_process)
            /\ proc[w].current_state.batch_size = proc[w].batch_size
            /\ proc[w].current_state.offset = proc[w].offset

\* What the code keeps of it: repos_processed is the number of iterations
\* that have ended; the statistics are ahead of it by one from the recording
\* of an item's outcome to the end of its iteration (the cache update lies in
\* between), and equal otherwise.
CheckpointCountsEndedIterations ==
    \A w \in DOMAIN proc :
        proc[w].pc \notin {"start", "exit"} =>
            /\ proc[w].current_state.repos_processed = proc[w].processed_count
            /\ proc[w].successful + proc[w].failed =
                   proc[w].processed_count + (IF proc[w].pc = "record" THEN 1 ELSE 0)
            /\ proc[w].current_state.repos_processed <= Len(proc[w].repos_to_process)
            /\ proc[w].current_state.batch_size = proc[w].batch_size
            /\ proc[w].current_state.offset = proc[w].offset

\* repos_processed never decreases during a run.
CheckpointNeverDecreases ==
    [][\A w \in DOMAIN proc :
          (proc[w].pc \notin {"start", "exit"} /\ proc'[w].pc \notin {"start", "exit"}) =>
              proc'[w].current_state.repos_processed >=
                  proc[w].current_state.repos_processed]_vars

\* C40: a feed entry that lacks its owner, its name or its pushedAt is
\* reported as needing processing without the cache being asked, no cache
\* entry is written for it, and every run that gets to the end processes it
\* again (whatever the store holds under its key).
C40_IncompleteEntryAlwaysProcessed ==
    \A w \in DOMAIN proc :
        LET p == proc[w] IN
        ~p.dry_run =>
            \A i \in 1..Len(feed) :
                (feed[i].owner = 0 \/ feed[i].name = 0 \/ feed[i].pushedAt = 0) =>
                    /\ \A k \in 1..Len(p.trace) :
                          p.trace[k][2] = feed[i].pos => p.trace[k][1] = "process"
                    /\ (p.pc \in {"select", "loop", "record"} /\ feed[i].pos \in Partition(p)) =>
                          /\ feed[i].url \in DOMAIN p.cache_status
                          /\ p.cache_status[feed[i].url]
                    /\ (p.pc \in {"loop", "record"} /\ feed[i].pos \in Partition(p)) =>
                          \E j \in 1..Len(p.repos_to_process) :
                              p.repos_to_process[j].pos = feed[i].pos
                    /\ (Completed(p) /\ feed[i].pos \in Partition(p)) =>
                          Invoked(p, feed[i].pos)

\* A run with the cache module at hand ends having processed, with success,
\* an entry without pushedAt under whose key an earlier run has stored an
\* entry: it was neither looked up nor written.
C40_Witness ==
    /\ CACHE_AVAILABLE
    /\ Len(feed) >= 1
    /\ feed[1].owner # 0 /\ feed[1].name # 0 /\ feed[1].pushedAt = 0
    /\ store[<<feed[1].owner, feed[1].name>>] # 0
    /\ Completed(proc[0])
    /\ proc[0].trace = <<<<"process", 0, TRUE, TRUE>>>>

(***************************************************************************)
(* Progress reporting: orchestrator.py, the head of the processing loop.   *)
(* The loop over repos_to_process is followed for its index and its        *)
(* progress logs only; what an iteration does to its item is in Process    *)
(* and Record.                                                             *)
(***************************************************************************)
MaxLoopItems == 250
ProgressInterval == 100

\* Faulty variant: the log is due after the item, at the end of a hundred.
ProgressDueAfterItem(idx) == (idx + 1) % ProgressInterval = 0

\* "if idx > 0 and idx % 100 == 0"
ProgressDue(idx) == idx > 0 /\ idx % ProgressInterval = 0

InitProgress ==
    /\ lTotal \in 0..MaxLoopItems
    /\ lIdx = 0
    /\ lLogs = <<>>
    /\ lpc = "loop"
    /\ PartIdle
    /\ RetryIdle
    /\ CacheIdle
    /\ OrchIdle
    /\ ProcessorIdle
    /\ StorageIdle
    /\ UploadIdle
    /\ BackendIdle

\* One iteration: log_progress(processed=processed_count, ...) when it is
\* due, the item, and "processed_count += 1".
LoopIteration ==
    /\ lpc = "loop"
    /\ lIdx < lTotal
    /\ lLogs' = IF ProgressDue(lIdx) THEN Append(lLogs, lIdx) ELSE lLogs
    /\ lIdx' = lIdx + 1
    /\ UNCHANGED <<lTotal, lpc, notProgress>>

\* The list is exhausted: step 5 follows, with log_final_summary only.
LoopEnd ==
    /\ lpc = "loop"
    /\ lIdx = lTotal
    /\ lpc' = "done"
    /\ UNCHANGED <<lTotal, lIdx, lLogs, notProgress>>

NextProgress == LoopIteration \/ LoopEnd

SpecProgress == InitProgress /\ [][NextProgress]_vars

\* ---- properties of the progress reporting

\* C26: a progress log is written exactly when the number of items already
\* processed is a positive multiple of 100, before the next item starts:
\* never before the first item, never after the last one; 250 items give
\* exactly 2 progress logs.
C26_ProgressEveryHundred ==
    /\ \A k \in 1..Len(lLogs) : lLogs[k] = ProgressInterval * k
    /\ \A m \in 1..(MaxLoopItems \div ProgressInterval + 1) :
          (m <= Len(lLogs)) = (ProgressInterval * m < lIdx)
    /\ lIdx = 0 => lLogs = <<>>
    /\ lpc = "done" =>
          /\ lIdx = lTotal
          /\ lTotal = 250 => lLogs = <<100, 200>>
          /\ lTotal = 200 => lLogs = <<100>>
          /\ lTotal <= 100 => lLogs = <<>>

C26_Witness ==
    /\ lpc = "done"
    /\ lTotal = 250
    /\ lLogs = <<100, 200>>

(***************************************************************************)
(* Storage clients: r2_client.py (upload_summary, get_summary,             *)
(* upload_with_retry), gcs_client.py (CloudStorageClient.upload_summary)   *)
(* and google_filesearch_client.py (GoogleFileSearchClient.upload_summary).*)
(* One client is followed through a few calls of one operation. The        *)
(* environment is fixed for the client's life:                             *)
(*   config  R2: the R2_* variables are set and boto3 is installed;        *)
(*           GCS: the bucket exists and can be reached;                    *)
(*           File Search: the service creates a store when asked           *)
(*   named   File Search: GOOGLE_FILE_SEARCH_STORE_NAME is set             *)
(* A result is [raised, value]: the value returned ("True", "False",       *)
(* "None", "content") or the exception that left the operation.            *)
(***************************************************************************)
MaxCalls == 2
UploadMaxAttempts == 3
UploadDelays == <<1, 2, 4>>
GcsMaxRetries == 3
GcsDelays == <<1, 2, 4>>
FsMaxRetries == 5
FsDelays == <<2, 5, 10, 20, 40>>
FS_MAX_SIZE == 102400
FsNoteTextLength == 74
MaxPollAttempts == 60
PollInterval == 5

\* The lengths of summary_content: empty, at the limit, one above, and one
\* whose length has a digit more.
FsLengths == {0, FS_MAX_SIZE, FS_MAX_SIZE + 1, 10 * FS_MAX_SIZE}
\* The values of pushedAt: none, and two timestamps.
GcsPushedAts == {"", "2025-10-15T14:30:00Z", "2025-11-13T10:05:23Z"}

\* len(str(n))
Digits(n) == CHOOSE d \in 1..9 : n < 10 ^ d /\ (d = 1 \/ n >= 10 ^ (d - 1))

\* len(truncation_note): the text around the two numbers, len(summary_content)
\* and max_size.
FsNoteLength(n) == FsNoteTextLength + Digits(n) + Digits(FS_MAX_SIZE)

\* Faulty variant: the first max_size characters are kept and the note is
\* appended to them.
FsUploadContentKeepsLimit(n) ==
    IF n > FS_MAX_SIZE
    THEN [kept |-> FS_MAX_SIZE, note |-> FsNoteLength(n), sizes |-> <<n, FS_MAX_SIZE>>]
    ELSE [kept |-> n, note |-> 0, sizes |-> <<>>]

\* upload_content for a summary of n characters: the number of its leading
\* characters that are kept, the length of the note that follows them and
\* the two sizes the note names.
\* "upload_content = summary_content[:max_size]" and then
\* "upload_content = upload_content[:max_size - len(truncation_note)] + truncation_note"
FsUploadContent(n) ==
    IF n > FS_MAX_SIZE
    THEN LET first == IF n < FS_MAX_SIZE THEN n ELSE FS_MAX_SIZE
             room == FS_MAX_SIZE - FsNoteLength(n)
         IN [kept |-> IF first < room THEN first ELSE room,
             note |-> FsNoteLength(n), sizes |-> <<n, FS_MAX_SIZE>>]
    ELSE [kept |-> n, note |-> 0, sizes |-> <<>>]

\* The number of writes of the object so far.
Writes(object) == IF object = <<>> THEN 0 ELSE object[1].writes

StorageOps ==
    {"r2_upload_summary", "r2_get_summary", "r2_upload_with_retry",
     "gcs_upload_summary", "fs_upload_summary"}

StReturned(v) == [raised |-> FALSE, value |-> v]
StRaised(e) == [raised |-> TRUE, value |-> e]

\* r2_client.upload_summary: True when the client was created and put_object
\* returned; every exception inside the try gives False.
r2_upload_summary(config, put) ==
    StReturned(IF config /\ put = "ok" THEN "True" ELSE "False")

\* What get_object can do: answer, or raise a ClientError (whose response is
\* a dict with the error code), an exception without a response attribute,
\* or one whose response attribute is None (the HTTP-level errors).
GetOutcomes == {"ok", "NoSuchKey", "ClientError", "no_response", "response_none"}

\* r2_client.get_summary: the content, or None from the handler, which reads
\* e.response.get('Error', {}) when e has a response attribute.
get_summary(config, out) ==
    IF ~config THEN StReturned("None")
    ELSE IF out = "ok" THEN StReturned("content")
    ELSE IF out = "response_none" THEN StRaised("AttributeError")
    ELSE StReturned("None")

\* delays[attempt] if attempt < len(delays) else delays[-1]
ClientDelay(ds, a) == IF a < Len(ds) THEN ds[a + 1] ELSE ds[Len(ds)]

InitStorage ==
    /\ sop \in StorageOps
    /\ senv \in [config : BOOLEAN, named : BOOLEAN]
    /\ sop # "fs_upload_summary" => senv.named
    /\ sop = "r2_upload_with_retry" => senv.config
    /\ sclient = [bucket |-> FALSE,
                  store_name |-> (sop = "fs_upload_summary" /\ senv.named)]
    /\ spc = "start"
    /\ sattempt = 0
    /\ sslept = <<>>
    /\ sstats = [total_uploaded |-> 0, total_failed |-> 0]
    /\ sres = <<>>
    /\ scalls = 0
    /\ max_attempts = UploadMaxAttempts
    /\ delays = UploadDelays
    /\ attempt = 0
    /\ rpc = "idle"
    /\ calls = <<>>
    /\ slept = <<>>
    /\ rresult = <<"none">>
    /\ fContent \in (IF sop = "fs_upload_summary" THEN FsLengths ELSE {0})
    /\ fWritten = <<>>
    /\ fPoll = 0
    /\ fPollSlept = 0
    /\ fDone = FALSE
    /\ fTimedOut = FALSE
    /\ gObject \in (IF sop = "gcs_upload_summary"
                    THEN {<<>>} \cup {<<[pushedAt |-> t, writes |-> 0]>> : t \in GcsPushedAts}
                    ELSE {<<>>})
    /\ gBefore = gObject
    /\ gPushedAt \in (IF sop = "gcs_upload_summary" THEN GcsPushedAts ELSE {""})
    /\ gCheck = "none"
    /\ PartIdle
    /\ CacheIdle
    /\ OrchIdle
    /\ ProcessorIdle
    /\ ProgressIdle
    /\ UploadIdle

\* r2_client.upload_summary(org, repo, content, metadata)
R2UploadSummary ==
    /\ sop = "r2_upload_summary"
    /\ spc = "start"
    /\ \E put \in {"ok", "err"} : sres' = <<r2_upload_summary(senv.config, put)>>
    /\ spc' = "done"
    /\ UNCHANGED <<sop, senv, sclient, sattempt, sslept, sstats, scalls,
                   retryVars, notStorage>>

\* r2_client.get_summary(org, repo)
R2GetSummary ==
    /\ sop = "r2_get_summary"
    /\ spc = "start"
    /\ \E out \in GetOutcomes : sres' = <<get_summary(senv.config, out)>>
    /\ spc' = "done"
    /\ UNCHANGED <<sop, senv, sclient, sattempt, sslept, sstats, scalls,
                   retryVars, notStorage>>

\* upload_with_retry: retry_with_backoff(upload_fn, max_attempts=3,
\* delays=[1, 2, 4]) is entered; upload_fn returns when upload_summary
\* returned True ("ok") and raises when it returned False ("err").
UploadWithRetryStart ==
    /\ sop = "r2_upload_with_retry"
    /\ spc = "start"
    /\ spc' = "retry"
    /\ rpc' = "loop"
    /\ UNCHANGED <<sop, senv, sclient, sattempt, sslept, sstats, sres, scalls,
                   max_attempts, delays, attempt, calls, slept, rresult, notStorage>>

\* Faulty variant: the exception of the last attempt leaves upload_with_retry.
UploadWithRetryEndRaises ==
    /\ spc = "retry"
    /\ rpc \in {"returned", "raised"}
    /\ sres' = <<IF rpc = "returned" THEN StReturned("True") ELSE StRaised("Exception")>>
    /\ spc' = "done"
    /\ rpc' = "idle"
    /\ UNCHANGED <<sop, senv, sclient, sattempt, sslept, sstats, scalls,
                   max_attempts, delays, attempt, calls, slept, rresult, notStorage>>

\* The end of upload_with_retry: the value of retry_with_backoff, or False
\* from "except Exception".
UploadWithRetryEnd ==
    /\ spc = "retry"
    /\ rpc \in {"returned", "raised"}
    /\ sres' = <<StReturned(IF rpc = "returned" THEN "True" ELSE "False")>>
    /\ spc' = "done"
    /\ rpc' = "idle"
    /\ UNCHANGED <<sop, senv, sclient, sattempt, sslept, sstats, scalls,
                   max_attempts, delays, attempt, calls, slept, rresult, notStorage>>

\* CloudStorageClient.upload_summary, before any try: "if not self.bucket:
\* self.bucket_name = self.get_or_create_bucket()". get_or_create_bucket
\* sets self.bucket, then raises when the bucket is not there or cannot be
\* reached.
GcsEnsureBucket ==
    /\ sop = "gcs_upload_summary"
    /\ spc = "start"
    /\ IF sclient.bucket
       THEN /\ spc' = "check"
            /\ UNCHANGED <<sclient, sres>>
       ELSE /\ sclient' = [sclient EXCEPT !.bucket = TRUE]
            /\ IF senv.config
               THEN /\ spc' = "check"
                    /\ UNCHANGED sres
               ELSE /\ spc' = "done"
                    /\ sres' = <<StRaised("Exception")>>
    /\ UNCHANGED <<sop, senv, sattempt, sslept, sstats, scalls, retryVars, notStorage>>

\* Faulty variant: an existing object is never written again.
GcsCheckExistingSkipsWhenPresent ==
    /\ sop = "gcs_upload_summary"
    /\ spc = "check"
    /\ \E reached \in (IF senv.config THEN BOOLEAN ELSE {FALSE}) :
         /\ gCheck' = IF ~reached THEN "error"
                       ELSE IF gObject = <<>> THEN "notfound"
                       ELSE "uptodate"
         /\ IF gCheck' = "uptodate"
            THEN /\ sstats' = [sstats EXCEPT !.total_uploaded = @ + 1]
                 /\ sres' = <<StReturned("True")>>
                 /\ spc' = "done"
            ELSE /\ spc' = "attempt"
                 /\ UNCHANGED <<sstats, sres>>
    /\ UNCHANGED <<sop, senv, sclient, sattempt, sslept, scalls, retryVars,
                   fContent, fWritten, fPoll, fPollSlept, fDone, fTimedOut,
                   gObject, gBefore, gPushedAt, notBackend>>

\* The check of the existing object. reload() and exists() answer or fail
\* (the failure is logged). An object whose pushedAt metadata
\* ("existing_metadata.get('pushedAt', '')") equals the new one is up to
\* date: it is counted as uploaded and True is returned. Else the object has
\* changed, or there is none (NotFound), and the upload goes on.
GcsCheckExisting ==
    /\ sop = "gcs_upload_summary"
    /\ spc = "check"
    /\ \E reached \in (IF senv.config THEN BOOLEAN ELSE {FALSE}) :
         /\ gCheck' = IF ~reached THEN "error"
                       ELSE IF gObject = <<>> THEN "notfound"
                       ELSE IF gObject[1].pushedAt = gPushedAt THEN "uptodate"
                       ELSE "changed"
         /\ IF gCheck' = "uptodate"
            THEN /\ sstats' = [sstats EXCEPT !.total_uploaded = @ + 1]
                 /\ sres' = <<StReturned("True")>>
                 /\ spc' = "done"
            ELSE /\ spc' = "attempt"
                 /\ UNCHANGED <<sstats, sres>>
    /\ UNCHANGED <<sop, senv, sclient, sattempt, sslept, scalls, retryVars,
                   fContent, fWritten, fPoll, fPollSlept, fDone, fTimedOut,
                   gObject, gBefore, gPushedAt, notBackend>>

\* One iteration of "for attempt in range(max_retries)" of the GCS client:
\* upload_from_string writes the object with the new metadata, or fails.
GcsAttempt ==
    /\ sop = "gcs_upload_summary"
    /\ spc = "attempt"
    /\ sattempt < GcsMaxRetries
    /\ \E out \in (IF senv.config THEN {"ok", "err"} ELSE {"err"}) :
         IF out = "ok"
         THEN /\ gObject' = <<[pushedAt |-> gPushedAt, writes |-> Writes(gObject) + 1]>>
              /\ sstats' = [sstats EXCEPT !.total_uploaded = @ + 1]
              /\ sres' = <<StReturned("True")>>
              /\ spc' = "done"
         ELSE IF sattempt < GcsMaxRetries - 1
         THEN /\ spc' = "sleep"
              /\ UNCHANGED <<sstats, sres, gObject>>
         ELSE /\ sstats' = [sstats EXCEPT !.total_failed = @ + 1]
              /\ sres' = <<StReturned("False")>>
              /\ spc' = "done"
              /\ UNCHANGED gObject
    /\ UNCHANGED <<sop, senv, sclient, sattempt, sslept, scalls, retryVars,
                   fContent, fWritten, fPoll, fPollSlept, fDone, fTimedOut,
                   gBefore, gPushedAt, gCheck, notBackend>>

\* time.sleep(delay) of the GCS client, then the next iteration.
GcsSleep ==
    /\ sop = "gcs_upload_summary"
    /\ spc = "sleep"
    /\ sslept' = Append(sslept, ClientDelay(GcsDelays, sattempt))
    /\ sattempt' = sattempt + 1
    /\ spc' = "attempt"
    /\ UNCHANGED <<sop, senv, sclient, sstats, sres, scalls, retryVars, notStorage>>

\* GoogleFileSearchClient.upload_summary -> upload_summary_sync, before any
\* try: "if not self.store_name: self.store_name = self.get_or_create_store()",
\* which raises again what the creation of the store raised.
FsEnsureStore ==
    /\ sop = "fs_upload_summary"
    /\ spc = "start"
    /\ IF sclient.store_name
       THEN /\ spc' = "attempt"
            /\ UNCHANGED <<sclient, sres>>
       ELSE IF senv.config
       THEN /\ sclient' = [sclient EXCEPT !.store_name = TRUE]
            /\ spc' = "attempt"
            /\ UNCHANGED sres
       ELSE /\ spc' = "done"
            /\ sres' = <<StRaised("Exception")>>
            /\ UNCHANGED sclient
    /\ UNCHANGED <<sop, senv, sattempt, sslept, sstats, scalls, retryVars, notStorage>>

\* "except Exception" of an attempt of the File Search client: the sleep
\* before the next attempt, or after the last one total_failed and False.
FsAttemptFailed ==
    IF sattempt < FsMaxRetries - 1
    THEN /\ spc' = "sleep"
         /\ UNCHANGED <<sstats, sres>>
    ELSE /\ sstats' = [sstats EXCEPT !.total_failed = @ + 1]
         /\ sres' = <<StReturned("False")>>
         /\ spc' = "done"

\* The head of an iteration of "for attempt in range(max_retries)" of the
\* File Search client: the content is cut to size and written to the
\* temporary file, the file is uploaded and its import is started. The
\* operation returned is done or is not; or one of the calls raises.
FsAttempt ==
    /\ sop = "fs_upload_summary"
    /\ spc = "attempt"
    /\ sattempt < FsMaxRetries
    /\ fWritten' = <<FsUploadContent(fContent)>>
    /\ \E out \in (IF senv.config THEN {"done", "pending", "err"} ELSE {"err"}) :
         IF out = "err"
         THEN /\ FsAttemptFailed
              /\ UNCHANGED <<fPoll, fPollSlept, fDone>>
         ELSE /\ spc' = "poll"
              /\ fPoll' = 0
              /\ fPollSlept' = 0
              /\ fDone' = (out = "done")
              /\ UNCHANGED <<sstats, sres>>
    /\ UNCHANGED <<sop, senv, sclient, sattempt, sslept, scalls, retryVars,
                   fContent, fTimedOut, gObject, gBefore, gPushedAt, gCheck, notBackend>>

\* Faulty variant: the loop polls once more than max_poll_attempts.
FsPollPastLimit ==
    /\ sop = "fs_upload_summary"
    /\ spc = "poll"
    /\ ~fDone /\ fPoll <= MaxPollAttempts
    /\ \E out \in {"done", "pending", "err"} :
         IF out = "err"
         THEN /\ FsAttemptFailed
              /\ fPollSlept' = fPollSlept + PollInterval
              /\ UNCHANGED <<fPoll, fDone>>
         ELSE /\ fPollSlept' = fPollSlept + PollInterval
              /\ fPoll' = fPoll + 1
              /\ fDone' = (out = "done")
              /\ UNCHANGED <<spc, sstats, sres>>
    /\ UNCHANGED <<sop, senv, sclient, sattempt, sslept, scalls, retryVars,
                   fContent, fWritten, fTimedOut, gObject, gBefore, gPushedAt, gCheck,
                   notBackend>>

\* One iteration of "while not operation.done and poll_count <
\* max_poll_attempts": time.sleep(5), operations.get, which gives the
\* operation, done or not, or raises; poll_count += 1.
FsPoll ==
    /\ sop = "fs_upload_summary"
    /\ spc = "poll"
    /\ ~fDone /\ fPoll < MaxPollAttempts
    /\ \E out \in {"done", "pending", "err"} :
         IF out = "err"
         THEN /\ FsAttemptFailed
              /\ fPollSlept' = fPollSlept + PollInterval
              /\ UNCHANGED <<fPoll, fDone>>
         ELSE /\ fPollSlept' = fPollSlept + PollInterval
              /\ fPoll' = fPoll + 1
              /\ fDone' = (out = "done")
              /\ UNCHANGED <<spc, sstats, sres>>
    /\ UNCHANGED <<sop, senv, sclient, sattempt, sslept, scalls, retryVars,
                   fContent, fWritten, fTimedOut, gObject, gBefore, gPushedAt, gCheck,
                   notBackend>>

\* After the polling loop: an operation that is not done raises ("Import
\* operation timed out"), as does one that ended with an error; both are
\* caught by the attempt's "except Exception". Else the upload is counted
\* and True is returned.
FsPollEnd ==
    /\ sop = "fs_upload_summary"
    /\ spc = "poll"
    /\ fDone \/ fPoll >= MaxPollAttempts
    /\ IF ~fDone
       THEN /\ fTimedOut' = TRUE
            /\ FsAttemptFailed
       ELSE /\ UNCHANGED fTimedOut
            /\ \E failed \in BOOLEAN :
                 IF failed
                 THEN FsAttemptFailed
                 ELSE /\ sstats' = [sstats EXCEPT !.total_uploaded = @ + 1]
                      /\ sres' = <<StReturned("True")>>
                      /\ spc' = "done"
    /\ UNCHANGED <<sop, senv, sclient, sattempt, sslept, scalls, retryVars,
                   fContent, fWritten, fPoll, fPollSlept, fDone,
                   gObject, gBefore, gPushedAt, gCheck, notBackend>>

\* time.sleep(delay) of the File Search client, then the next iteration.
FsSleep ==
    /\ sop = "fs_upload_summary"
    /\ spc = "sleep"
    /\ sslept' = Append(sslept, ClientDelay(FsDelays, sattempt))
    /\ sattempt' = sattempt + 1
    /\ spc' = "attempt"
    /\ UNCHANGED <<sop, senv, sclient, sstats, sres, scalls, retryVars, notStorage>>

\* The caller makes the next call of the operation on the same client: the
\* locals are fresh, the client object and its stats are kept.
StorageNextCall ==
    /\ spc = "done"
    /\ scalls < MaxCalls - 1
    /\ scalls' = scalls + 1
    /\ spc' = "start"
    /\ sattempt' = 0
    /\ sslept' = <<>>
    /\ sres' = <<>>
    /\ attempt' = 0
    /\ calls' = <<>>
    /\ slept' = <<>>
    /\ rresult' = <<"none">>
    /\ fWritten' = <<>>
    /\ fPoll' = 0
    /\ fPollSlept' = 0
    /\ fDone' = FALSE
    /\ fTimedOut' = FALSE
    /\ gBefore' = gObject
    /\ gPushedAt' \in (IF sop = "gcs_upload_summary" THEN GcsPushedAts ELSE {""})
    /\ gCheck' = "none"
    /\ UNCHANGED <<sop, senv, sclient, sstats, max_attempts, delays, rpc,
                   fContent, gObject, notBackend>>

NextStorage ==
    \/ R2UploadSummary
    \/ R2GetSummary
    \/ UploadWithRetryStart
    \/ RetryCall
    \/ RetryHandle
    \/ RetrySleep
    \/ UploadWithRetryEnd
    \/ GcsEnsureBucket
    \/ GcsCheckExisting
    \/ GcsAttempt
    \/ GcsSleep
    \/ FsEnsureStore
    \/ FsAttempt
    \/ FsPoll
    \/ FsPollEnd
    \/ FsSleep
    \/ StorageNextCall

SpecStorage == InitStorage /\ [][NextStorage]_vars

\* The same with the process kept running: a step that can be taken is taken.
SpecStorageLive == InitStorage /\ [][NextStorage]_vars /\ WF_vars(NextStorage)

\* ---- properties of the storage clients

StorageDone == spc = "done"

\* C23: upload_with_retry never raises; it calls upload_summary at most 3
\* times, stops at the first call that returns True and then returns True,
\* and returns False exactly when all 3 calls returned False.
C23_UploadWithRetry ==
    sop = "r2_upload_with_retry" =>
        /\ Len(calls) <= 3
        /\ \A k \in 1..(Len(calls) - 1) : calls[k] = "err"
        /\ StorageDone =>
              /\ ~sres[1].raised
              /\ sres[1].value \in {"True", "False"}
              /\ Len(calls) >= 1
              /\ (sres[1].value = "True") = (calls[Len(calls)] = "ok")
              /\ (sres[1].value = "False") =
                    (Len(calls) = 3 /\ \A k \in 1..3 : calls[k] = "err")
              /\ slept = SubSeq(UploadDelays, 1, Len(calls) - 1)

C23_Witness ==
    /\ sop = "r2_upload_with_retry"
    /\ StorageDone
    /\ calls = <<"err", "err", "err">>
    /\ slept = <<1, 2>>
    /\ sres = <<StReturned("False")>>

\* C24: no operation of a storage client raises past its interface: the R2
\* upload_summary, get_summary and upload_with_retry, the GCS upload_summary
\* and the File Search upload_summary turn every failure of the backend or of
\* the configuration into False or None.
C24_StorageNeverRaises ==
    StorageDone =>
        /\ ~sres[1].raised
        /\ sres[1].value \in {"True", "False", "None", "content"}

\* What the code keeps of C24: the R2 uploads never raise, and the GCS and
\* File Search uploads raise only out of the set-up of the bucket or store
\* that precedes their try; get_summary raises only out of its handler.
StorageRaisesOnlyOutsideTry ==
    (StorageDone /\ sres[1].raised) =>
        \/ sop = "gcs_upload_summary" /\ ~senv.config /\ scalls = 0 /\ sattempt = 0
        \/ sop = "fs_upload_summary" /\ ~senv.config /\ ~senv.named /\ sattempt = 0
        \/ sop = "r2_get_summary" /\ senv.config



(***************************************************************************)
(* Properties of the File Search and of the Cloud Storage upload.          *)
(***************************************************************************)

\* C37: the File Search upload always ends. An attempt polls the import
\* operation at most 60 times, sleeping 5 seconds before each poll; an
\* operation that is still not done then fails the attempt, which is
\* followed by the next attempt or, if it was the last, by the return of
\* False; there are never more than max_retries attempts.
C37_FileSearchUploadTerminates ==
    /\ [](sop = "fs_upload_summary" =>
            /\ fPoll <= MaxPollAttempts
            /\ fPollSlept \in {PollInterval * fPoll, PollInterval * (fPoll + 1)}
            /\ fPollSlept <= PollInterval * MaxPollAttempts
            /\ sattempt + 1 <= FsMaxRetries)
    /\ [][(sop = "fs_upload_summary" /\ spc = "poll" /\ ~fDone
              /\ fPoll >= MaxPollAttempts) =>
             \/ sattempt < FsMaxRetries - 1 /\ spc' = "sleep" /\ sres' = <<>>
             \/ sattempt = FsMaxRetries - 1 /\ spc' = "done"
                   /\ sres' = <<StReturned("False")>>]_vars
    /\ ((sop = "fs_upload_summary" /\ spc # "done") ~> (spc = "done"))

\* The first attempts of a call have run into the polling limit after 60
\* polls, and a later attempt has succeeded: the call has returned True.
C37_Witness ==
    /\ sop = "fs_upload_summary"
    /\ spc = "done"
    /\ fTimedOut
    /\ sattempt = FsMaxRetries - 1
    /\ sres = <<StReturned("True")>>

\* C37 as stated: an operation that is still not done after the last poll
\* is a terminal failure of the upload, which returns False.
C37_PollTimeoutIsTerminal ==
    (sop = "fs_upload_summary" /\ spc = "done" /\ fTimedOut) =>
        sres = <<StReturned("False")>>

\* C38: a summary of at most 102400 characters is written for upload as it
\* is; of a longer one the leading characters are written, followed by a
\* note that names the original size and 102400, the two together being
\* 102400 characters long.
C38_SecondaryLimitFitsNote ==
    (sop = "fs_upload_summary" /\ fWritten # <<>>) =>
        LET w == fWritten[1] IN
        IF fContent <= FS_MAX_SIZE
        THEN w.kept = fContent /\ w.note = 0
        ELSE /\ w.note = FsNoteLength(fContent)
             /\ w.kept + w.note = FS_MAX_SIZE
             /\ w.sizes = <<fContent, FS_MAX_SIZE>>

\* A summary of 102401 characters: 102314 of them and the 86 of the note.
C38_Witness ==
    /\ sop = "fs_upload_summary"
    /\ fContent = FS_MAX_SIZE + 1
    /\ fWritten = <<[kept |-> 102314, note |-> 86, sizes |-> <<102401, 102400>>]>>

\* C38 as stated: of a longer summary the first 102400 characters are
\* written, followed by the note.
C38_FirstLimitCharactersKept ==
    (sop = "fs_upload_summary" /\ fWritten # <<>>) =>
        LET w == fWritten[1] IN
        IF fContent <= FS_MAX_SIZE
        THEN w.kept = fContent /\ w.note = 0
        ELSE /\ w.kept = FS_MAX_SIZE
             /\ w.note > 0
             /\ w.sizes = <<fContent, FS_MAX_SIZE>>

\* C39: upload_summary of the Cloud Storage client returns True without
\* writing exactly when the existence check finds an object whose pushedAt
\* equals the new one; when the pushedAt differs, when there is no object
\* and when the check fails it goes on to write: a successful call leaves
\* the object written anew with the new pushedAt, a failed one leaves it as
\* it was.
C39_GcsSkipsOnlyUnchanged ==
    (sop = "gcs_upload_summary" /\ spc = "done" /\ gCheck # "none") =>
        LET same == gBefore # <<>> /\ gBefore[1].pushedAt = gPushedAt IN
        /\ gCheck = "uptodate" =>
              (same /\ sres = <<StReturned("True")>> /\ gObject = gBefore)
        /\ same => gCheck \in {"uptodate", "error"}
        /\ (~same /\ gBefore # <<>>) => gCheck \in {"changed", "error"}
        /\ gBefore = <<>> => gCheck \in {"notfound", "error"}
        /\ gCheck # "uptodate" =>
              /\ sres \in {<<StReturned("True")>>, <<StReturned("False")>>}
              /\ sres = <<StReturned("True")>> =>
                    gObject = <<[pushedAt |-> gPushedAt, writes |-> Writes(gBefore) + 1]>>
              /\ sres = <<StReturned("False")>> => gObject = gBefore

\* The second call repeats the upload of the first with the same pushedAt:
\* it returns True and the object is the one the first call wrote.
C39_Witness ==
    /\ sop = "gcs_upload_summary"
    /\ scalls = 1
    /\ spc = "done"
    /\ gCheck = "uptodate"
    /\ gPushedAt = "2025-10-15T14:30:00Z"
    /\ gObject = <<[pushedAt |-> "2025-10-15T14:30:00Z", writes |-> 1]>>
    /\ sres = <<StReturned("True")>>
    /\ sstats.total_uploaded = 2

(***************************************************************************)
(* Upload of a summary to R2: ingest.py upload_summary_to_r2, called by    *)
(* process_repository, which orchestrator.py calls with the url of the     *)
(* feed entry only; r2_client.py upload_summary. A string is a sequence of *)
(* characters.                                                             *)
(***************************************************************************)

MaxNameLen == 1
MaxUploads == 2

NameChars == {"a", "i", "t"}
Slash == <<"/">>
DotGit == <<".", "g", "i", "t">>
Host == <<"h", "t", "t", "p", "s", ":", "/", "/",
          "g", "i", "t", "h", "u", "b", ".", "c", "o", "m">>
OrgName == <<"o", "r", "g">>

\* The urls of the feed: https://github.com/org/<name>, as it is, with
\* ".git", with a trailing "/" or with both; and the url of an entry that
\* has none (repo.get("url", "")).
RepoNames == UNION {[1..n -> NameChars] : n \in 1..MaxNameLen}
Urls ==
    {Host \o Slash \o OrgName \o Slash \o name \o suffix :
        name \in RepoNames, suffix \in {<<>>, DotGit, Slash, DotGit \o Slash}}
    \cup {<<>>}
ListedPushedAt == {"", "2025-10-15T14:30:00Z"}

\* str.rstrip(chars): the trailing characters that are members of chars are
\* removed, as many as there are.
RStrip(s, chars) ==
    LET keep == {k \in 0..Len(s) : \A j \in (k + 1)..Len(s) : s[j] \in chars}
        n == CHOOSE k \in keep : \A other \in keep : k <= other
    IN SubSeq(s, 1, n)

\* str.split(sep) with a separator of one character: the pieces between the
\* separators, the empty ones included.
Split(s, sep) ==
    LET at == SelectSeq([k \in 1..Len(s) |-> k], LAMBDA k : s[k] = sep)
        cut == <<0>> \o at \o <<Len(s) + 1>>
    IN [i \in 1..(Len(at) + 1) |-> SubSeq(s, cut[i] + 1, cut[i + 1] - 1)]

\* 'url_parts = repo_url.rstrip("/").rstrip(".git").split("/")'
UrlParts(repo_url) ==
    Split(RStrip(RStrip(repo_url, {"/"}), {".", "g", "i", "t"}), "/")

\* f"gitingest/{org}/{repo}/summary.txt"
R2Key(org, repo) ==
    <<"g", "i", "t", "i", "n", "g", "e", "s", "t", "/">> \o org \o Slash \o repo
       \o <<"/", "s", "u", "m", "m", "a", "r", "y", ".", "t", "x", "t">>

\* The metadata upload_summary_to_r2 prepares.
UploadMetadata(repo_url, now) ==
    [pushedAt |-> "", url |-> repo_url, processedAt |-> now]

\* The Metadata of put_object: the three members of the dict handed over.
ObjectMetadata(metadata) ==
    [pushedat |-> metadata.pushedAt, url |-> metadata.url,
     processedat |-> metadata.processedAt]

InitUpload ==
    /\ r2 = [k \in {} |-> 0]
    /\ uLast = <<>>
    /\ uNow = 0
    /\ PartIdle
    /\ RetryIdle
    /\ CacheIdle
    /\ OrchIdle
    /\ ProcessorIdle
    /\ StorageIdle
    /\ ProgressIdle
    /\ BackendIdle

\* One feed entry with its url and its pushedAt goes through
\* process_repository(repo_url, upload_to_r2=True) to
\* upload_summary_to_r2(repo_url, summary). With fewer than two url parts it
\* returns False; else upload_with_retry stores the object (put_object
\* succeeds within the attempts) or returns False.
UploadSummaryToR2 ==
    /\ uNow < MaxUploads
    /\ \E repo_url \in Urls, listed \in ListedPushedAt, put \in BOOLEAN :
         LET url_parts == UrlParts(repo_url)
             org == url_parts[Len(url_parts) - 1]
             repo == url_parts[Len(url_parts)]
             stored == Len(url_parts) >= 2 /\ put
         IN /\ r2' = IF stored
                     THEN (R2Key(org, repo) :> ObjectMetadata(UploadMetadata(repo_url, uNow)))
                              @@ r2
                     ELSE r2
            /\ uLast' = <<[url |-> repo_url, listed |-> listed, now |-> uNow,
                           result |-> stored]>>
    /\ uNow' = uNow + 1
    /\ UNCHANGED notUpload

NextUpload == UploadSummaryToR2

SpecUpload == InitUpload /\ [][NextUpload]_vars

\* The key under which the last call has stored its object.
LastKey ==
    LET url_parts == UrlParts(uLast[1].url)
    IN R2Key(url_parts[Len(url_parts) - 1], url_parts[Len(url_parts)])

\* C35: the metadata stored with an uploaded summary carries the url of the
\* repository, its pushedAt as listed in the feed, and a processedAt taken
\* at processing time.
C35_MetadataOfUpload ==
    (uLast # <<>> /\ uLast[1].result) =>
        /\ r2[LastKey].url = uLast[1].url
        /\ r2[LastKey].pushedat = uLast[1].listed
        /\ r2[LastKey].processedat = uLast[1].now

\* What the code keeps of it: the url and the time of processing are stored;
\* the pushedAt stored is the empty string.
MetadataOfUploadHasUrlAndTime ==
    (uLast # <<>> /\ uLast[1].result) =>
        /\ r2[LastKey].url = uLast[1].url
        /\ r2[LastKey].pushedat = ""
        /\ r2[LastKey].processedat = uLast[1].now

\* s without the suffix suf, if it ends with it.
WithoutSuffix(s, suf) ==
    IF Len(s) >= Len(suf) /\ SubSeq(s, Len(s) - Len(suf) + 1, Len(s)) = suf
    THEN SubSeq(s, 1, Len(s) - Len(suf))
    ELSE s

\* The last two path segments of the url after the removal of one trailing
\* "/" and of the suffix ".git".
OrgAndRepo(url) ==
    LET segments == Split(WithoutSuffix(WithoutSuffix(url, Slash), DotGit), "/")
    IN <<segments[Len(segments) - 1], segments[Len(segments)]>>

\* C36: a summary is stored at gitingest/{org}/{repo}/summary.txt, org and
\* repo being the last two path segments of the url without its trailing "/"
\* and its ".git" suffix.
C36_KeyFromOrgAndRepo ==
    \A key \in DOMAIN r2 :
        key = R2Key(OrgAndRepo(r2[key].url)[1], OrgAndRepo(r2[key].url)[2])

\* Its consequence: the object of one repository is not replaced by the
\* object of another, that is of a url with another (org, repo).
DistinctReposDistinctKeys ==
    [][\A key \in DOMAIN r2 :
          (key \in DOMAIN r2' /\ r2'[key] # r2[key]) =>
              OrgAndRepo(r2'[key].url) = OrgAndRepo(r2[key].url)]_vars

\* What the code keeps of it: the key is the stated one for a repository
\* whose name does not end with one of the characters ".", "g", "i", "t".
KeyFromOrgAndRepoUnlessNameEndsInGitChars ==
    \A key \in DOMAIN r2 :
        LET name == OrgAndRepo(r2[key].url)[2]
        IN (name # <<>> /\ name[Len(name)] \notin {".", "g", "i", "t"}) =>
              key = R2Key(OrgAndRepo(r2[key].url)[1], name)

====
